---- MODULE Spec2Model ----
(***************************************************************************)
(* ShiftPilot scheduling core: the availability predicate, the schedule    *)
(* validator, the greedy solver (solver.py) and the CP-SAT solver          *)
(* (or_solver.py), as a state machine over one ScheduleContext, and the    *)
(* calls of the package's functions on arguments of their own; and the     *)
(* approve, reject and cancel routes of the AI proposals                   *)
(* (api/routes/ai_proposals.py) over the rows of the ai_proposals table.   *)
(*                                                                         *)
(* Conventions.  A datetime is the number of minutes since context         *)
(* week_start 00:00 (a Monday); a time of day is minutes since midnight.   *)
(* datetime.combine(week_start + day, t) is DT(day, t); dt.time() is       *)
(* TimeOf(dt); dt.date() is DateOf(dt); dt.weekday() is Weekday(dt).       *)
(* Durations and employee hours are kept in minutes (duration_hours * 60)  *)
(* so that every quantity is an integer.  Python's None is NoTime for an   *)
(* optional time, NoDay for an optional day_of_week, NoDept for an         *)
(* optional department id and NoAvail for an optional AvailabilityType.    *)
(***************************************************************************)
EXTENDS Integers, Sequences, FiniteSets, TLC

VARIABLES
    context,         \* the ScheduleContext handed to the solver
    pc,              \* position of the running solve
    shifts,          \* ScheduleSolver.shifts: the greedy working list
    employee_hours,  \* ScheduleSolver.employee_hours (minutes)
    employee_days,   \* ScheduleSolver.employee_days
    shift_vars,      \* or_solver: keys of the decision variables, in insertion order
    status,          \* or_solver: the status solver.Solve returned
    result,          \* the ScheduleResult returned
    call,            \* a call of one function of the package: its name and arguments
    ret,             \* what that call returned
    proposals        \* the rows of the ai_proposals table, by id

vars == <<context, pc, shifts, employee_hours, employee_days, shift_vars, status, result, call, ret,
          proposals>>

----------------------------------------------------------------------------
(* Time arithmetic                                                          *)

MinutesPerHour == 60
MinutesPerDay == 1440

HM(h, m) == h * MinutesPerHour + m
DT(day, t) == day * MinutesPerDay + t
TimeOf(dt) == dt % MinutesPerDay
DateOf(dt) == dt \div MinutesPerDay
Weekday(dt) == DateOf(dt) % 7

Max2(a, b) == IF a >= b THEN a ELSE b
Min2(a, b) == IF a <= b THEN a ELSE b

Range(s) == {s[i] : i \in 1..Len(s)}

\* Then(v, e) is e, with v evaluated first: the loops below carry their state
\* through recursive calls, and TLC evaluates arguments lazily
Then(v, e) == IF v = v THEN e ELSE e

RECURSIVE SumSeq(_)
SumSeq(s) ==
    IF Len(s) = 0 THEN 0
    ELSE IF Len(s) = 1 THEN s[1]
    ELSE SumSeq(SubSeq(s, 1, Len(s) \div 2))
         + SumSeq(SubSeq(s, Len(s) \div 2 + 1, Len(s)))

\* seq[order[1]], seq[order[2]], ...
RECURSIVE Reorder(_, _)
Reorder(seq, order) ==
    IF order = <<>> THEN <<>> ELSE <<seq[Head(order)]>> \o Reorder(seq, Tail(order))

RECURSIVE Concat(_)
Concat(ss) == IF ss = <<>> THEN <<>> ELSE Head(ss) \o Concat(Tail(ss))

NoTime == -1
NoDay == -1
NoDept == 0
NoAvail == "NONE"

----------------------------------------------------------------------------
(* types.py                                                                 *)

AVAILABLE == "AVAILABLE"
UNAVAILABLE == "UNAVAILABLE"
PREFERRED == "PREFERRED"

Employee(id, kh, mgr, hours, depts, primary) ==
    [id |-> id, is_keyholder |-> kh, is_manager |-> mgr,
     contracted_weekly_hours |-> hours, department_ids |-> depts,
     primary_department_id |-> primary]

AvailabilityRule(e, day, type, st, en) ==
    [employee_id |-> e, day_of_week |-> day, rule_type |-> type,
     start_time |-> st, end_time |-> en]

TimeOffRequest(e, st, en) ==
    [employee_id |-> e, start_datetime |-> st, end_datetime |-> en]

CoverageRequirement(id, dept, day, st, en, staff) ==
    [id |-> id, department_id |-> dept, day_of_week |-> day,
     start_time |-> st, end_time |-> en, min_staff |-> staff]

RoleRequirement(id, dept, day, st, en, kh, mgr, cnt) ==
    [id |-> id, department_id |-> dept, day_of_week |-> day,
     start_time |-> st, end_time |-> en, requires_keyholder |-> kh,
     requires_manager |-> mgr, min_manager_count |-> cnt]

Shift(e, dept, st, en) ==
    [employee_id |-> e, department_id |-> dept,
     start_datetime |-> st, end_datetime |-> en]

\* Shift.duration_hours, in minutes
duration_minutes(s) == s.end_datetime - s.start_datetime

\* Shift.day_of_week
shift_day_of_week(s) == Weekday(s.start_datetime)

ScheduleContext(emps, rules, offs, cov, roles, existing) ==
    [employees |-> emps, availability_rules |-> rules,
     time_off_requests |-> offs, coverage_requirements |-> cov,
     role_requirements |-> roles, existing_shifts |-> existing]

ScheduleResult(ok, sh, cov, roles, hours, warn) ==
    [success |-> ok, shifts |-> sh, unmet_coverage |-> cov,
     unmet_role_requirements |-> roles, unmet_contracted_hours |-> hours,
     warnings |-> warn]

\* the value of `result` before the solver has returned
NoResult == [success |-> FALSE, shifts |-> <<>>, unmet_coverage |-> <<>>,
             unmet_role_requirements |-> <<>>, unmet_contracted_hours |-> <<>>,
             warnings |-> <<"pending">>]

----------------------------------------------------------------------------
(* availability.py                                                          *)

times_overlap(start1, end1, start2, end2) ==
    start1 < end2 /\ start2 < end1

datetime_ranges_overlap(start1, end1, start2, end2) ==
    start1 < end2 /\ start2 < end1

\* a time off of any employee counts
is_anyone_on_time_off(employee_id, shift_start, shift_end, time_off_requests) ==
    \E i \in 1..Len(time_off_requests) :
        datetime_ranges_overlap(shift_start, shift_end,
                                time_off_requests[i].start_datetime,
                                time_off_requests[i].end_datetime)

is_employee_on_time_off(employee_id, shift_start, shift_end, time_off_requests) ==
    \E i \in 1..Len(time_off_requests) :
        /\ time_off_requests[i].employee_id = employee_id
        /\ datetime_ranges_overlap(shift_start, shift_end,
                                   time_off_requests[i].start_datetime,
                                   time_off_requests[i].end_datetime)

\* no rule is taken as all day
IsAllDay_never(rule) == FALSE

\* rule.start_time is None and rule.end_time is None
IsAllDay(rule) == rule.start_time = NoTime /\ rule.end_time = NoTime

\* no rule is taken as windowed
HasWindow_never(rule) == FALSE

\* rule.start_time and rule.end_time (a datetime.time is always truthy)
HasWindow(rule) == rule.start_time # NoTime /\ rule.end_time # NoTime

get_availability_for_slot(employee_id, day_of_week, slot_start, slot_end, rules) ==
    LET employee_rules ==
            SelectSeq(rules, LAMBDA r : r.employee_id = employee_id
                                        /\ r.day_of_week = day_of_week)
        ER == Range(employee_rules)
        blocked ==
            \E r \in ER :
                /\ r.rule_type = UNAVAILABLE
                /\ \/ IsAllDay(r)
                   \/ /\ HasWindow(r)
                      /\ times_overlap(slot_start, slot_end, r.start_time, r.end_time)
        covered ==
            \E r \in ER :
                /\ r.rule_type = AVAILABLE
                /\ \/ IsAllDay(r)
                   \/ /\ HasWindow(r)
                      /\ slot_start >= r.start_time
                      /\ slot_end <= r.end_time
        \* the inner loop over pref_rule: only windowed PREFERRED rules count
        also_preferred ==
            \E p \in ER :
                /\ p.rule_type = PREFERRED
                /\ HasWindow(p)
                /\ times_overlap(slot_start, slot_end, p.start_time, p.end_time)
        preferred_only ==
            \E r \in ER :
                /\ r.rule_type = PREFERRED
                /\ \/ IsAllDay(r)
                   \/ /\ HasWindow(r)
                      /\ times_overlap(slot_start, slot_end, r.start_time, r.end_time)
        has_available_rules == \E r \in ER : r.rule_type = AVAILABLE
    IN  IF employee_rules = <<>> THEN NoAvail
        ELSE IF blocked THEN UNAVAILABLE
        ELSE IF covered THEN (IF also_preferred THEN PREFERRED ELSE AVAILABLE)
        ELSE IF preferred_only THEN PREFERRED
        ELSE IF has_available_rules THEN UNAVAILABLE
        ELSE NoAvail

\* the double-booking loop of can_employee_work_shift
ConflictsWithShift(employee_id, shift_start, shift_end, existing_shifts) ==
    \E i \in 1..Len(existing_shifts) :
        /\ existing_shifts[i].employee_id = employee_id
        /\ datetime_ranges_overlap(shift_start, shift_end,
                                   existing_shifts[i].start_datetime,
                                   existing_shifts[i].end_datetime)

\* the reason string of can_employee_work_shift ("OK" when it returns True)
can_work_reason(employee, shift_start, shift_end, department_id, availability_rules, time_off_requests, existing_shifts) ==
    IF department_id \notin Range(employee.department_ids)
    THEN "Employee not assigned to department"
    ELSE IF is_employee_on_time_off(employee.id, shift_start, shift_end,
                                    time_off_requests)
    THEN "Employee has approved time off"
    ELSE IF get_availability_for_slot(employee.id, Weekday(shift_start),
                                      TimeOf(shift_start), TimeOf(shift_end),
                                      availability_rules) = UNAVAILABLE
    THEN "Employee unavailable during this time"
    ELSE IF ConflictsWithShift(employee.id, shift_start, shift_end, existing_shifts)
    THEN "Conflicts with existing shift"
    ELSE "OK"

can_employee_work_shift(employee, shift_start, shift_end, department_id, availability_rules, time_off_requests, existing_shifts) ==
    can_work_reason(employee, shift_start, shift_end, department_id,
                    availability_rules, time_off_requests, existing_shifts) = "OK"

\* len(get_available_employees_for_slot(...)): only the length is used
CountAvailableEmployees(employees, shift_start, shift_end, department_id, availability_rules, time_off_requests, existing_shifts) ==
    Cardinality({i \in 1..Len(employees) :
        can_employee_work_shift(employees[i], shift_start, shift_end, department_id,
                                availability_rules, time_off_requests, existing_shifts)})

----------------------------------------------------------------------------
(* constraints.py                                                           *)

SampleInterval == 30

\* the instants start, start + 30, ... below end (the while loops that sample a window)
RECURSIVE SampleTimes(_, _)
SampleTimes(current, end_dt) ==
    IF current < end_dt
    THEN <<current>> \o SampleTimes(current + SampleInterval, end_dt)
    ELSE <<>>

\* a shift still counts at the instant it ends
get_shifts_covering_time_closed(shs, target_datetime, department_id) ==
    SelectSeq(shs, LAMBDA s :
        /\ s.start_datetime <= target_datetime
        /\ target_datetime <= s.end_datetime
        /\ (department_id = NoDept \/ s.department_id = department_id))

get_shifts_covering_time(shs, target_datetime, department_id) ==
    SelectSeq(shs, LAMBDA s :
        /\ s.start_datetime <= target_datetime
        /\ target_datetime < s.end_datetime
        /\ (department_id = NoDept \/ s.department_id = department_id))

\* current_count of check_coverage_at_time
coverage_count(shs, requirement, check_datetime) ==
    Len(get_shifts_covering_time(shs, check_datetime, requirement.department_id))

check_coverage_at_time(shs, requirement, check_datetime) ==
    coverage_count(shs, requirement, check_datetime) >= requirement.min_staff

\* the gaps list of check_coverage_for_window
coverage_gaps_for_window(shs, requirement) ==
    SelectSeq(SampleTimes(DT(requirement.day_of_week, requirement.start_time),
                          DT(requirement.day_of_week, requirement.end_time)),
              LAMBDA t : ~check_coverage_at_time(shs, requirement, t))

check_coverage_for_window(shs, requirement) ==
    coverage_gaps_for_window(shs, requirement) = <<>>

\* emp_map lookup: the employees of the context with this id (last one wins in a dict)
EmployeesWithId(employees, id) == {e \in Range(employees) : e.id = id}

check_role_requirement_at_time(shs, employees, requirement, check_datetime) ==
    LET active_shifts ==
            get_shifts_covering_time(shs, check_datetime, requirement.department_id)
        \* one entry per active shift whose employee is known
        active == {i \in 1..Len(active_shifts) :
                      EmployeesWithId(employees, active_shifts[i].employee_id) # {}}
        emp_of(i) == CHOOSE e \in EmployeesWithId(employees, active_shifts[i].employee_id) : TRUE
        has_keyholder == \E i \in active : emp_of(i).is_keyholder
        manager_count == Cardinality({i \in active : emp_of(i).is_manager})
    IN  /\ (requirement.requires_keyholder => has_keyholder)
        /\ (requirement.requires_manager =>
                manager_count >= requirement.min_manager_count)

\* days of a role requirement: [day_of_week] or range(7)
role_days(requirement) ==
    IF requirement.day_of_week # NoDay
    THEN <<requirement.day_of_week>>
    ELSE <<0, 1, 2, 3, 4, 5, 6>>

role_gaps_for_window(shs, employees, requirement) ==
    LET days == role_days(requirement)
        per_day(d) ==
            SelectSeq(SampleTimes(DT(d, requirement.start_time),
                                  DT(d, requirement.end_time)),
                      LAMBDA t : ~check_role_requirement_at_time(shs, employees,
                                                                 requirement, t))
    IN  Concat([i \in 1..Len(days) |-> per_day(days[i])])

check_role_requirement_for_window(shs, employees, requirement) ==
    role_gaps_for_window(shs, employees, requirement) = <<>>

\* in minutes
calculate_employee_hours(shs, employee_id) ==
    SumSeq([i \in 1..Len(shs) |->
        IF shs[i].employee_id = employee_id THEN duration_minutes(shs[i]) ELSE 0])

\* the dict employee_id -> shortfall as a sequence of <<id, shortfall minutes>>,
\* in the order of context.employees
check_contracted_hours(shs, employees) ==
    LET shortfall(e) == e.contracted_weekly_hours * MinutesPerHour
                        - calculate_employee_hours(shs, e.id)
        short == SelectSeq(employees, LAMBDA e : shortfall(e) > 0)
    IN  [i \in 1..Len(short) |-> <<short[i].id, shortfall(short[i])>>]

validate_schedule(ctx, shs) ==
    LET coverage_gaps ==
            SelectSeq(ctx.coverage_requirements,
                      LAMBDA r : ~check_coverage_for_window(shs, r))
        role_gaps ==
            SelectSeq(ctx.role_requirements,
                      LAMBDA r : ~check_role_requirement_for_window(shs, ctx.employees, r))
        hour_shortfalls == check_contracted_hours(shs, ctx.employees)
    IN  [valid |-> coverage_gaps = <<>> /\ role_gaps = <<>> /\ hour_shortfalls = <<>>,
         coverage_gaps |-> coverage_gaps,
         role_gaps |-> role_gaps,
         hour_shortfalls |-> hour_shortfalls]

----------------------------------------------------------------------------
(* solver.py: the greedy solver.  The solver object's fields travel as a    *)
(* record st = [shifts, employee_hours, employee_days].                     *)

MANAGER_SHIFT_LENGTHS == <<8, 4, 6, 10>>
NON_MANAGER_SHIFT_LENGTHS == <<8, 4, 6>>
MIN_REST_HOURS == 12
DayStartTime == HM(6, 0)
DayEndTime == HM(22, 0)

\* employee ids the defaultdicts are read at
EmpIds(ctx) ==
    {e.id : e \in Range(ctx.employees)}
        \cup {s.employee_id : s \in Range(ctx.existing_shifts)}

\* ScheduleSolver._add_shift
_add_shift(st, shift) ==
    [shifts |-> Append(st.shifts, shift),
     employee_hours |->
        [st.employee_hours EXCEPT ![shift.employee_id] = @ + duration_minutes(shift)],
     employee_days |->
        [st.employee_days EXCEPT ![shift.employee_id] = @ \cup {shift_day_of_week(shift)}]]

RECURSIVE AddAll(_, _)
AddAll(st, shs) ==
    Then(st, IF shs = <<>> THEN st
             ELSE AddAll(_add_shift(st, Head(shs)), Tail(shs)))

\* ScheduleSolver.__init__
SolverInit(ctx) ==
    AddAll([shifts |-> <<>>,
            employee_hours |-> [id \in EmpIds(ctx) |-> 0],
            employee_days |-> [id \in EmpIds(ctx) |-> {}]],
           ctx.existing_shifts)

\* every employee is offered 8-hour shifts only
allowed_lengths_eight(employee) ==
    <<8>>

allowed_lengths(employee) ==
    IF employee.is_manager THEN MANAGER_SHIFT_LENGTHS ELSE NON_MANAGER_SHIFT_LENGTHS

\* ScheduleSolver._has_sufficient_rest
_has_sufficient_rest(st, employee_id, target_date) ==
    LET min_rest == MIN_REST_HOURS * MinutesPerHour
    IN  \A i \in 1..Len(st.shifts) :
            LET shift == st.shifts[i]
                shift_date == DateOf(shift.start_datetime)
            IN  shift.employee_id = employee_id =>
                  /\ (shift_date = target_date - 1 =>
                        ~(DT(target_date, DayStartTime) - shift.end_datetime < min_rest))
                  /\ (shift_date = target_date + 1 =>
                        ~(shift.start_datetime - DT(target_date, DayEndTime) < min_rest))

\* the while loop of _find_valid_shift_time: <<best_start, best_overlap>> after it
RECURSIVE BestStartLoop(_, _, _, _, _, _, _, _, _, _)
BestStartLoop(ctx, st, employee, department_id, length, window_start, window_end, current_start, latest_start, best) ==
    Then(best,
        IF current_start > latest_start THEN best
        ELSE LET shift_end == current_start + length
                 can_work == can_employee_work_shift(employee, current_start,
                                 shift_end, department_id, ctx.availability_rules,
                                 ctx.time_off_requests, st.shifts)
                 overlap == Min2(shift_end, window_end)
                                - Max2(current_start, window_start)
             IN  BestStartLoop(ctx, st, employee, department_id, length,
                     window_start, window_end, current_start + SampleInterval,
                     latest_start,
                     IF can_work /\ overlap > best[2]
                     THEN <<current_start, overlap>> ELSE best))

\* ScheduleSolver._find_valid_shift_time: <<>> for None, <<shift>> otherwise
_find_valid_shift_time(ctx, st, employee, department_id, target_date, length_hours, window_start, window_end, must_cover) ==
    LET length == length_hours * MinutesPerHour
        day_start == DT(target_date, DayStartTime)
        day_end == DT(target_date, DayEndTime)
        earliest_start == Max2(must_cover - length + SampleInterval, day_start)
        latest_start == Min2(must_cover, day_end - length)
        best == BestStartLoop(ctx, st, employee, department_id, length, window_start,
                              window_end, earliest_start, latest_start, <<NoTime, 0>>)
    IN  IF earliest_start > latest_start THEN <<>>
        ELSE IF best[1] # NoTime
        THEN <<Shift(employee.id, department_id, best[1], best[1] + length)>>
        ELSE <<>>

\* max(min_staff of the department's coverage requirements, default=1)
dept_min_staff(ctx, department_id) ==
    LET ms == {r.min_staff : r \in {q \in Range(ctx.coverage_requirements) :
                                        q.department_id = department_id}}
    IN  IF ms = {} THEN 1 ELSE CHOOSE m \in ms : \A k \in ms : k <= m

\* the hours part of _score_shift: +2 per needed hour filled, or -3 per hour of
\* the shift when nothing is needed (hours are minutes here)
HoursScore(contracted_weekly_hours, current_minutes, shift_minutes) ==
    LET needed == contracted_weekly_hours * MinutesPerHour - current_minutes
    IN  IF needed > 0
        THEN (Min2(shift_minutes, needed) * 2) \div MinutesPerHour
        ELSE 0 - (shift_minutes * 3) \div MinutesPerHour

\* ScheduleSolver._score_shift
_score_shift(ctx, st, shift, employee, department_id) ==
    LET avail == get_availability_for_slot(employee.id, shift_day_of_week(shift),
                     TimeOf(shift.start_datetime), TimeOf(shift.end_datetime),
                     ctx.availability_rules)
        length == duration_minutes(shift)
        days_worked == Cardinality(st.employee_days[employee.id])
    IN  dept_min_staff(ctx, department_id) * 5
        + (IF department_id = employee.primary_department_id THEN 25 ELSE 0 - 15)
        + (IF avail = PREFERRED THEN 15 ELSE IF avail = AVAILABLE THEN 5 ELSE 0)
        + (IF length = HM(8, 0) THEN 10
           ELSE IF length = HM(4, 0) THEN 7
           ELSE IF length = HM(6, 0) THEN 5
           ELSE IF length = HM(10, 0) THEN 3 ELSE 0)
        + HoursScore(employee.contracted_weekly_hours,
                     st.employee_hours[employee.id], length)
        + (IF days_worked >= 5 THEN 0 - 20 ELSE IF days_worked >= 4 THEN 0 - 5 ELSE 0)

\* scored_options.sort(key=-score); scored_options[0][1]: the first option of
\* maximal score (the sort is stable); <<>> when there is none
PickBest(scored_options) ==
    IF scored_options = <<>> THEN <<>>
    ELSE LET best == CHOOSE i \in 1..Len(scored_options) :
                        /\ \A j \in 1..Len(scored_options) :
                              scored_options[j][1] <= scored_options[i][1]
                        /\ \A j \in 1..(i - 1) :
                              scored_options[j][1] < scored_options[i][1]
         IN  <<scored_options[best][2]>>

\* `if shift: score = ...; scored_options.append((score, shift, emp))`: the
\* options one found shift contributes, as pairs <<score, shift>>
ScoredOption(ctx, st, emp, dept_id, bonus, found) ==
    IF found = <<>> THEN <<>>
    ELSE << <<_score_shift(ctx, st, found[1], emp, dept_id) + bonus, found[1]>> >>

\* the scored options one employee contributes: one per allowed length that has a
\* valid start, in palette order
EmployeeOptions(ctx, st, emp, dept_id, target_date, window_start, window_end, target_time, bonus) ==
    LET lengths == allowed_lengths(emp)
    IN  Concat([k \in 1..Len(lengths) |->
            ScoredOption(ctx, st, emp, dept_id, bonus,
                _find_valid_shift_time(ctx, st, emp, dept_id, target_date,
                    lengths[k], window_start, window_end, target_time))])

\* ScheduleSolver._find_best_shift_for_time
_find_best_shift_for_time(ctx, st, target_time, department_id, window_start, window_end) ==
    LET day_of_week == Weekday(target_time)
        target_date == DateOf(target_time)
        candidates == SelectSeq(ctx.employees,
                          LAMBDA e : department_id \in Range(e.department_ids))
        options(emp) ==
            IF day_of_week \in st.employee_days[emp.id] THEN <<>>
            ELSE IF ~_has_sufficient_rest(st, emp.id, target_date) THEN <<>>
            ELSE EmployeeOptions(ctx, st, emp, department_id, target_date,
                                 window_start, window_end, target_time, 0)
    IN  PickBest(Concat([i \in 1..Len(candidates) |-> options(candidates[i])]))

\* `if shift: self._add_shift(shift)`
AddFound(st, shift) ==
    IF shift # <<>> THEN _add_shift(st, shift[1]) ELSE st

\* the `for _ in range(needed)` loop of _cover_single_requirement
RECURSIVE AddNeeded(_, _, _, _, _, _, _)
AddNeeded(ctx, st, req, current, window_start, window_end, needed) ==
    Then(st,
        IF needed <= 0 THEN st
        ELSE AddNeeded(ctx,
                AddFound(st, _find_best_shift_for_time(ctx, st, current,
                                req.department_id, window_start, window_end)),
                req, current, window_start, window_end, needed - 1))

\* the `while current < window_end` loop of _cover_single_requirement
RECURSIVE CoverLoop(_, _, _, _, _, _)
CoverLoop(ctx, st, req, current, window_start, window_end) ==
    Then(st,
        IF ~(current < window_end) THEN st
        ELSE CoverLoop(ctx,
                IF ~check_coverage_at_time(st.shifts, req, current)
                THEN AddNeeded(ctx, st, req, current, window_start, window_end,
                         req.min_staff - coverage_count(st.shifts, req, current))
                ELSE st,
                req, current + SampleInterval, window_start, window_end))

\* ScheduleSolver._cover_single_requirement
_cover_single_requirement(ctx, st, req) ==
    LET window_start == DT(req.day_of_week, req.start_time)
        window_end == DT(req.day_of_week, req.end_time)
    IN  CoverLoop(ctx, st, req, window_start, window_start, window_end)

\* constraint_score(a) < constraint_score(b), the keys being
\* (len(available) / max(min_staff, 1), -min_staff) compared as tuples
ConstraintLess(ctx, st, a, b) ==
    LET avail(r) == CountAvailableEmployees(ctx.employees,
                        DT(r.day_of_week, r.start_time), DT(r.day_of_week, r.end_time),
                        r.department_id, ctx.availability_rules,
                        ctx.time_off_requests, st.shifts)
        lhs == avail(a) * Max2(b.min_staff, 1)
        rhs == avail(b) * Max2(a.min_staff, 1)
    IN  lhs < rhs \/ (lhs = rhs /\ 0 - a.min_staff < 0 - b.min_staff)

\* sorted(): a stable insertion sort of the indices 1..n, less[i][j] saying that
\* the key of element i is strictly below the key of element j
RECURSIVE InsertSorted(_, _, _)
InsertSorted(sorted, x, less) ==
    IF sorted = <<>> THEN <<x>>
    ELSE IF less[x][Head(sorted)] THEN <<x>> \o sorted
    ELSE <<Head(sorted)>> \o InsertSorted(Tail(sorted), x, less)

RECURSIVE StableSort(_, _)
StableSort(n, less) ==
    IF n = 0 THEN <<>> ELSE InsertSorted(StableSort(n - 1, less), n, less)

\* ScheduleSolver._sort_requirements_by_constraint
_sort_requirements_by_constraint(ctx, st) ==
    LET reqs == ctx.coverage_requirements
        less == [i \in 1..Len(reqs) |-> [j \in 1..Len(reqs) |->
                    ConstraintLess(ctx, st, reqs[i], reqs[j])]]
    IN  Reorder(reqs, StableSort(Len(reqs), less))

RECURSIVE CoverAll(_, _, _)
CoverAll(ctx, st, reqs) ==
    Then(st,
        IF reqs = <<>> THEN st
        ELSE CoverAll(ctx, _cover_single_requirement(ctx, st, Head(reqs)),
                      Tail(reqs)))

\* ScheduleSolver._cover_requirements: two passes over one sorted list
_cover_requirements(ctx, st) ==
    LET sorted_reqs == _sort_requirements_by_constraint(ctx, st)
    IN  CoverAll(ctx, CoverAll(ctx, st, sorted_reqs), sorted_reqs)

\* ScheduleSolver._retry_coverage_gaps
_retry_coverage_gaps(ctx, st) ==
    CoverAll(ctx, st, _sort_requirements_by_constraint(ctx, st))

\* candidates of _find_role_shift: the employees that hold every required role
role_candidates(ctx, req) ==
    SelectSeq(ctx.employees, LAMBDA emp :
        /\ ~(req.requires_keyholder /\ ~emp.is_keyholder)
        /\ ~(req.requires_manager /\ ~emp.is_manager))

\* dept_id of _find_role_shift: NoDept when the employee is skipped
role_dept(req, emp) ==
    LET own == IF emp.primary_department_id # NoDept THEN emp.primary_department_id
               ELSE IF emp.department_ids # <<>> THEN emp.department_ids[1]
               ELSE NoDept
    IN  IF req.department_id # NoDept
        THEN (IF req.department_id \notin Range(emp.department_ids)
              THEN NoDept ELSE req.department_id)
        ELSE own

\* ScheduleSolver._find_role_shift
_find_role_shift(ctx, st, req, target_time, window_start, window_end, day_of_week) ==
    LET target_date == DateOf(target_time)
        candidates == role_candidates(ctx, req)
        options(emp) ==
            IF day_of_week \in st.employee_days[emp.id] THEN <<>>
            ELSE IF ~_has_sufficient_rest(st, emp.id, target_date) THEN <<>>
            ELSE IF role_dept(req, emp) = NoDept THEN <<>>
            ELSE EmployeeOptions(ctx, st, emp, role_dept(req, emp), target_date,
                                 window_start, window_end, target_time, 20)
    IN  PickBest(Concat([i \in 1..Len(candidates) |-> options(candidates[i])]))

\* the `while current < window_end` loop of _satisfy_single_role_requirement
RECURSIVE RoleLoop(_, _, _, _, _, _, _)
RoleLoop(ctx, st, req, current, window_start, window_end, day) ==
    Then(st,
        IF ~(current < window_end) THEN st
        ELSE RoleLoop(ctx,
                IF ~check_role_requirement_at_time(st.shifts, ctx.employees,
                                                   req, current)
                THEN AddFound(st, _find_role_shift(ctx, st, req, current,
                                      window_start, window_end, day))
                ELSE st,
                req, current + SampleInterval, window_start, window_end, day))

RECURSIVE RoleDays(_, _, _, _)
RoleDays(ctx, st, req, days) ==
    Then(st,
        IF days = <<>> THEN st
        ELSE LET day == Head(days)
                 window_start == DT(day, req.start_time)
                 window_end == DT(day, req.end_time)
             IN  RoleDays(ctx,
                     RoleLoop(ctx, st, req, window_start, window_start,
                              window_end, day),
                     req, Tail(days)))

\* ScheduleSolver._satisfy_single_role_requirement
_satisfy_single_role_requirement(ctx, st, req) ==
    RoleDays(ctx, st, req, role_days(req))

RECURSIVE RoleAll(_, _, _)
RoleAll(ctx, st, reqs) ==
    Then(st,
        IF reqs = <<>> THEN st
        ELSE RoleAll(ctx, _satisfy_single_role_requirement(ctx, st, Head(reqs)),
                     Tail(reqs)))

\* ScheduleSolver._satisfy_role_requirements
_satisfy_role_requirements(ctx, st) == RoleAll(ctx, st, ctx.role_requirements)

\* departments_to_try of _find_open_shift: the primary department, then the others
departments_to_try(employee) ==
    LET first == IF employee.primary_department_id # NoDept
                 THEN <<employee.primary_department_id>> ELSE <<>>
    IN  first \o SelectSeq(employee.department_ids, LAMBDA d : d \notin Range(first))

\* range(6, 19): the start hours _find_open_shift tries
FirstOpenHour == 6
LastOpenHour == 18

\* the `for hour in range(6, 19)` loop: <<>> or the first shift the employee can work
RECURSIVE OpenHourLoop(_, _, _, _, _, _, _)
OpenHourLoop(ctx, st, employee, target_date, length, dept_id, hour) ==
    IF hour > LastOpenHour THEN <<>>
    ELSE LET start == DT(target_date, HM(hour, 0))
             end == start + length
         IN  IF can_employee_work_shift(employee, start, end, dept_id,
                    ctx.availability_rules, ctx.time_off_requests, st.shifts)
             THEN <<Shift(employee.id, dept_id, start, end)>>
             ELSE OpenHourLoop(ctx, st, employee, target_date, length, dept_id, hour + 1)

RECURSIVE OpenDeptLoop(_, _, _, _, _, _)
OpenDeptLoop(ctx, st, employee, target_date, length, depts) ==
    IF depts = <<>> THEN <<>>
    ELSE LET found == OpenHourLoop(ctx, st, employee, target_date, length,
                                   Head(depts), FirstOpenHour)
         IN  IF found # <<>> THEN found
             ELSE OpenDeptLoop(ctx, st, employee, target_date, length, Tail(depts))

\* ScheduleSolver._find_open_shift
_find_open_shift(ctx, st, employee, target_date, length_hours) ==
    OpenDeptLoop(ctx, st, employee, target_date, length_hours * MinutesPerHour,
                 departments_to_try(employee))

\* sorted(allowed_lengths, reverse=True)
SortedDescending(seq) ==
    Reorder(seq, StableSort(Len(seq),
                [i \in 1..Len(seq) |-> [j \in 1..Len(seq) |-> seq[i] > seq[j]]]))

\* the `for length in sorted(...)` loop of _fill_employee_hours
RECURSIVE FirstOpenShift(_, _, _, _, _)
FirstOpenShift(ctx, st, employee, target_date, lengths) ==
    IF lengths = <<>> THEN <<>>
    ELSE LET found == _find_open_shift(ctx, st, employee, target_date, Head(lengths))
         IN  IF found # <<>> THEN found
             ELSE FirstOpenShift(ctx, st, employee, target_date, Tail(lengths))

\* the `for day in range(7)` loop of _fill_employee_hours; needed is in minutes
RECURSIVE FillDays(_, _, _, _, _)
FillDays(ctx, st, employee, needed, day) ==
    Then(st,
        IF day > 6 \/ needed <= 0 THEN st
        ELSE IF day \in st.employee_days[employee.id]
        THEN FillDays(ctx, st, employee, needed, day + 1)
        ELSE IF ~_has_sufficient_rest(st, employee.id, day)
        THEN FillDays(ctx, st, employee, needed, day + 1)
        ELSE LET found == FirstOpenShift(ctx, st, employee, day,
                              SortedDescending(allowed_lengths(employee)))
             IN  FillDays(ctx, AddFound(st, found), employee,
                     IF found # <<>> THEN needed - duration_minutes(found[1])
                     ELSE needed,
                     day + 1))

\* ScheduleSolver._fill_employee_hours
_fill_employee_hours(ctx, st, employee, needed) ==
    FillDays(ctx, st, employee, needed, 0)

\* employees_needing_hours, sorted by hours needed, most first
employees_needing_hours(ctx, st) ==
    LET need(e) == e.contracted_weekly_hours * MinutesPerHour - st.employee_hours[e.id]
        under == SelectSeq(ctx.employees, LAMBDA e :
                    st.employee_hours[e.id] < e.contracted_weekly_hours * MinutesPerHour)
        pairs == [i \in 1..Len(under) |-> <<under[i], need(under[i])>>]
    IN  Reorder(pairs, StableSort(Len(under),
                    [i \in 1..Len(under) |-> [j \in 1..Len(under) |->
                        0 - need(under[i]) < 0 - need(under[j])]]))

RECURSIVE FillEach(_, _, _)
FillEach(ctx, st, todo) ==
    Then(st,
        IF todo = <<>> THEN st
        ELSE FillEach(ctx,
                _fill_employee_hours(ctx, st, Head(todo)[1], Head(todo)[2]),
                Tail(todo)))

FillPasses == 3

RECURSIVE FillPass(_, _, _)
FillPass(ctx, st, passes) ==
    Then(st,
        IF passes = 0 THEN st
        ELSE LET todo == employees_needing_hours(ctx, st)
             IN  IF todo = <<>> THEN st
                 ELSE FillPass(ctx, FillEach(ctx, st, todo), passes - 1))

\* ScheduleSolver._fill_contracted_hours
_fill_contracted_hours(ctx, st) == FillPass(ctx, st, FillPasses)

\* the whole working list, the existing shifts included
new_shifts_unfiltered(ctx, shs) == shs

\* every shift of an employee that has an existing shift is dropped
new_shifts_by_employee(ctx, shs) ==
    SelectSeq(shs, LAMBDA s :
        \A x \in Range(ctx.existing_shifts) : x.employee_id # s.employee_id)

\* new_shifts of _build_result: the working list without the shifts whose
\* (employee_id, start, end) is that of an existing shift
new_shifts(ctx, shs) ==
    LET existing_ids == {<<s.employee_id, s.start_datetime, s.end_datetime>> :
                            s \in Range(ctx.existing_shifts)}
    IN  SelectSeq(shs, LAMBDA s :
            <<s.employee_id, s.start_datetime, s.end_datetime>> \notin existing_ids)

\* a warning f"{count} ..." is the pair <<count, text>>
Warning(count, text) == <<count, text>>

\* ScheduleSolver._build_result
_build_result(ctx, st) ==
    LET validation == validate_schedule(ctx, st.shifts)
        unmet_coverage == validation.coverage_gaps
        unmet_roles == validation.role_gaps
        warnings ==
            (IF unmet_coverage # <<>>
             THEN <<Warning(Len(unmet_coverage), "coverage requirements not fully met")>>
             ELSE <<>>)
            \o (IF unmet_roles # <<>>
                THEN <<Warning(Len(unmet_roles), "role requirements not fully met")>>
                ELSE <<>>)
            \o (IF validation.hour_shortfalls # <<>>
                THEN <<Warning(Len(validation.hour_shortfalls),
                               "employees under contracted hours")>>
                ELSE <<>>)
    IN  ScheduleResult(validation.valid, new_shifts(ctx, st.shifts), unmet_coverage,
                       unmet_roles, validation.hour_shortfalls, warnings)

----------------------------------------------------------------------------
(* or_solver.py: the CP-SAT solver.  A decision variable is known by its    *)
(* key (emp_id, day, start_slot, length, dept_id); a solution is the set of *)
(* keys whose variable is 1.                                                *)

SLOT_DURATION_MINUTES == 60
SLOTS_PER_HOUR == 60 \div SLOT_DURATION_MINUTES
DAY_START_HOUR == 6
DAY_END_HOUR == 22
SLOTS_PER_DAY == (DAY_END_HOUR - DAY_START_HOUR) * SLOTS_PER_HOUR

MIN_SHIFT_HOURS == 4
MAX_REGULAR_HOURS == 9
MAX_MANAGER_HOURS == 12
\* or_solver.MIN_REST_HOURS
CP_MIN_REST_HOURS == 12

WEIGHT_UNMET_COVERAGE_SLOT == 0 - 1000
WEIGHT_UNMET_ROLE_SLOT == 0 - 1000
WEIGHT_UNMET_CONTRACTED_HOUR == 0 - 100
WEIGHT_OVERTIME_HOUR == 0 - 3
WEIGHT_PRIMARY_DEPT == 25
WEIGHT_NON_PRIMARY_DEPT == 0 - 15
WEIGHT_PREFERRED_AVAIL == 15
WEIGHT_SHIFT_8H == 10
WEIGHT_SHIFT_6H == 8
WEIGHT_SHIFT_4H == 7
WEIGHT_SHIFT_OTHER == 5

NoStatus == "NONE"
OPTIMAL == "OPTIMAL"
FEASIBLE == "FEASIBLE"
UNKNOWN == "UNKNOWN"

\* the time of day at which a slot starts; slot 0 is 06:00
slot_to_time(slot) == DAY_START_HOUR * 60 + slot * SLOT_DURATION_MINUTES

\* Python's // rounds down, as \div does
time_to_slot(t) == (t - DAY_START_HOUR * 60) \div SLOT_DURATION_MINUTES

\* the lengths start one hour below MIN_SHIFT_HOURS
get_valid_shift_lengths_short(is_manager) ==
    LET max_hours == IF is_manager THEN MAX_MANAGER_HOURS ELSE MAX_REGULAR_HOURS
        min_slots == (MIN_SHIFT_HOURS - 1) * SLOTS_PER_HOUR
        max_slots == max_hours * SLOTS_PER_HOUR
    IN  [k \in 1..((max_slots - min_slots) \div SLOTS_PER_HOUR + 1) |->
            min_slots + (k - 1) * SLOTS_PER_HOUR]

\* list(range(min_slots, max_slots + 1, SLOTS_PER_HOUR))
get_valid_shift_lengths(is_manager) ==
    LET max_hours == IF is_manager THEN MAX_MANAGER_HOURS ELSE MAX_REGULAR_HOURS
        min_slots == MIN_SHIFT_HOURS * SLOTS_PER_HOUR
        max_slots == max_hours * SLOTS_PER_HOUR
    IN  [k \in 1..((max_slots - min_slots) \div SLOTS_PER_HOUR + 1) |->
            min_slots + (k - 1) * SLOTS_PER_HOUR]

_get_shift_length_bonus(length_slots) ==
    LET hours == length_slots \div SLOTS_PER_HOUR
    IN  IF hours = 8 THEN WEIGHT_SHIFT_8H
        ELSE IF hours = 6 THEN WEIGHT_SHIFT_6H
        ELSE IF hours = 4 THEN WEIGHT_SHIFT_4H
        ELSE WEIGHT_SHIFT_OTHER

\* the availability matrix without its check against the existing shifts
has_conflict_unchecked(employee, ctx, slot_start_dt, slot_end_dt) == FALSE

\* the has_conflict loop of _build_availability_matrix
has_conflict(employee, ctx, slot_start_dt, slot_end_dt) ==
    \E i \in 1..Len(ctx.existing_shifts) :
        /\ ctx.existing_shifts[i].employee_id = employee.id
        /\ datetime_ranges_overlap(slot_start_dt, slot_end_dt,
                                   ctx.existing_shifts[i].start_datetime,
                                   ctx.existing_shifts[i].end_datetime)

\* one iteration of the slot loop of _build_availability_matrix: the entries
\* available[day][slot] and preferred[day][slot]
MatrixEntry(employee, ctx, day, slot) ==
    LET slot_start == slot_to_time(slot)
        slot_end == slot_to_time(slot + 1)
        avail == get_availability_for_slot(employee.id, day, slot_start, slot_end,
                                           ctx.availability_rules)
        slot_start_dt == DT(day, slot_start)
        slot_end_dt == DT(day, slot_end)
        free == /\ avail # UNAVAILABLE
                /\ ~is_employee_on_time_off(employee.id, slot_start_dt, slot_end_dt,
                                            ctx.time_off_requests)
                /\ ~has_conflict(employee, ctx, slot_start_dt, slot_end_dt)
    IN  [available |-> free, preferred |-> free /\ avail = PREFERRED]

\* (available_matrix, preferred_matrix), both 7 x SLOTS_PER_DAY
_build_availability_matrix(employee, ctx) ==
    [available |-> [day \in 0..6 |-> [slot \in 0..(SLOTS_PER_DAY - 1) |->
                        MatrixEntry(employee, ctx, day, slot).available]],
     preferred |-> [day \in 0..6 |-> [slot \in 0..(SLOTS_PER_DAY - 1) |->
                        MatrixEntry(employee, ctx, day, slot).preferred]]]

\* in minutes
_get_existing_hours(employee_id, existing_shifts) ==
    SumSeq([i \in 1..Len(existing_shifts) |->
        IF existing_shifts[i].employee_id = employee_id
        THEN duration_minutes(existing_shifts[i]) ELSE 0])

\* no day counts as already worked
_get_existing_days_none(employee_id, existing_shifts) == {}

_get_existing_days(employee_id, existing_shifts) ==
    {shift_day_of_week(s) : s \in {x \in Range(existing_shifts) :
                                      x.employee_id = employee_id}}

ShiftKey(emp_id, day, start_slot, length, dept_id) ==
    [emp_id |-> emp_id, day |-> day, start_slot |-> start_slot,
     length |-> length, dept_id |-> dept_id]

\* the keys created for one employee, day and start slot: every valid length
\* that fits the day and whose slots are all available, in every department
StartKeys(emp, avail, day, start_slot) ==
    LET valid_lengths == get_valid_shift_lengths(emp.is_manager)
        keys(length) ==
            IF start_slot + length > SLOTS_PER_DAY THEN <<>>
            ELSE IF ~(\A sl \in start_slot..(start_slot + length - 1) : avail[day][sl])
            THEN <<>>
            ELSE [j \in 1..Len(emp.department_ids) |->
                    ShiftKey(emp.id, day, start_slot, length, emp.department_ids[j])]
    IN  Concat([k \in 1..Len(valid_lengths) |-> keys(valid_lengths[k])])

\* the keys created for one employee; days with an existing shift are skipped
EmployeeKeys(ctx, emp) ==
    LET avail == _build_availability_matrix(emp, ctx).available
        existing_days == _get_existing_days(emp.id, ctx.existing_shifts)
        day_keys(day) ==
            IF day \in existing_days THEN <<>>
            ELSE Concat([s \in 1..SLOTS_PER_DAY |-> StartKeys(emp, avail, day, s - 1)])
    IN  Then(avail, Concat([d \in 1..7 |-> day_keys(d - 1)]))

\* the keys of shift_vars after the decision-variable loops
ShiftVarKeys(ctx) ==
    Concat([i \in 1..Len(ctx.employees) |-> EmployeeKeys(ctx, ctx.employees[i])])

\* get_emp_day_shifts
get_emp_day_shifts(keys, emp_id, day) ==
    {k \in Range(keys) : k.emp_id = emp_id /\ k.day = day}

shift_covers_slot(key, slot) ==
    key.start_slot <= slot /\ slot < key.start_slot + key.length

\* minutes since midnight at which a candidate starts and ends
KeyStartMinutes(key) == DAY_START_HOUR * 60 + key.start_slot * SLOT_DURATION_MINUTES
KeyEndMinutes(key) ==
    DAY_START_HOUR * 60 + (key.start_slot + key.length) * SLOT_DURATION_MINUTES

\* hard constraint 1: model.AddAtMostOne per employee and day
AtMostOnePerDay(ctx, keys, A) ==
    \A i \in 1..Len(ctx.employees) : \A day \in 0..6 :
        day \notin _get_existing_days(ctx.employees[i].id, ctx.existing_shifts)
            => Cardinality(A \cap get_emp_day_shifts(keys, ctx.employees[i].id, day)) <= 1

\* hard constraint 2: the 12-hour rest constraints, rest_minutes being
\* (24 * 60 - end_minutes) + start_minutes on times of day
RestConstraints(ctx, keys, A) ==
    \A i \in 1..Len(ctx.employees) : \A day \in 0..5 :
        LET emp == ctx.employees[i]
            today_shifts == get_emp_day_shifts(keys, emp.id, day)
            tomorrow_shifts == get_emp_day_shifts(keys, emp.id, day + 1)
            existing_today == {s \in Range(ctx.existing_shifts) :
                                  s.employee_id = emp.id /\ shift_day_of_week(s) = day}
            existing_tomorrow == {s \in Range(ctx.existing_shifts) :
                                     s.employee_id = emp.id
                                     /\ shift_day_of_week(s) = day + 1}
            min_rest == CP_MIN_REST_HOURS * 60
        IN  /\ \A key1 \in today_shifts : \A key2 \in tomorrow_shifts :
                  (24 * 60 - KeyEndMinutes(key1)) + KeyStartMinutes(key2) < min_rest
                      => ~(key1 \in A /\ key2 \in A)
            /\ \A existing \in existing_today : \A key2 \in tomorrow_shifts :
                  (24 * 60 - TimeOf(existing.end_datetime)) + KeyStartMinutes(key2)
                          < min_rest
                      => key2 \notin A
            /\ \A existing \in existing_tomorrow : \A key1 \in today_shifts :
                  (24 * 60 - KeyEndMinutes(key1)) + TimeOf(existing.start_datetime)
                          < min_rest
                      => key1 \notin A

\* sum(length * var) over the employee's variables, in slots
total_new(keys, A, emp_id) ==
    SumSeq([i \in 1..Len(keys) |->
        IF keys[i].emp_id = emp_id /\ keys[i] \in A THEN keys[i].length ELSE 0])

\* int(existing_hours[emp.id] * SLOTS_PER_HOUR)
existing_slots(ctx, emp) ==
    (_get_existing_hours(emp.id, ctx.existing_shifts) * SLOTS_PER_HOUR) \div MinutesPerHour

\* the domains NewIntVar(0, SLOTS_PER_DAY * 7) of total_new and overtime
DomainConstraints(ctx, keys, A) ==
    \A i \in 1..Len(ctx.employees) :
        LET emp == ctx.employees[i]
            total == total_new(keys, A, emp.id)
        IN  (\E k \in Range(keys) : k.emp_id = emp.id) =>
                /\ total <= SLOTS_PER_DAY * 7
                /\ total + existing_slots(ctx, emp)
                        - emp.contracted_weekly_hours * SLOTS_PER_HOUR <= SLOTS_PER_DAY * 7

HardConstraints(ctx, keys, A) ==
    /\ AtMostOnePerDay(ctx, keys, A)
    /\ RestConstraints(ctx, keys, A)
    /\ DomainConstraints(ctx, keys, A)

\* the sets of keys with at most one key per employee and day
RECURSIVE Candidates(_)
Candidates(ks) ==
    IF ks = {} THEN {{}}
    ELSE LET k == CHOOSE x \in ks : TRUE
             group == {x \in ks : x.emp_id = k.emp_id /\ x.day = k.day}
             rest == Candidates(ks \ group)
         IN  rest \cup {B \cup {g} : B \in rest, g \in group}

\* the assignments of the shift variables the model admits
Solutions(ctx, keys) ==
    {A \in Candidates(Range(keys)) : HardConstraints(ctx, keys, A)}

\* s.start_datetime <= slot_dt < s.end_datetime
ActiveAt(s, slot_dt) == s.start_datetime <= slot_dt /\ slot_dt < s.end_datetime

\* objective terms of one coverage requirement at one slot, the slack variable
\* at the least value its constraint allows
CoverageSlotTerm(ctx, keys, A, req, slot) ==
    LET slot_dt == DT(req.day_of_week, slot_to_time(slot))
        existing_coverage ==
            Cardinality({i \in 1..Len(ctx.existing_shifts) :
                /\ ctx.existing_shifts[i].department_id = req.department_id
                /\ ActiveAt(ctx.existing_shifts[i], slot_dt)})
        covering_vars == {k \in Range(keys) :
                            /\ k.day = req.day_of_week
                            /\ k.dept_id = req.department_id
                            /\ shift_covers_slot(k, slot)}
        needed == req.min_staff - existing_coverage
    IN  IF needed > 0
        THEN (IF covering_vars # {}
              THEN WEIGHT_UNMET_COVERAGE_SLOT
                       * Max2(0, needed - Cardinality(A \cap covering_vars))
              ELSE WEIGHT_UNMET_COVERAGE_SLOT * needed)
        ELSE 0

\* sum of term[slot] for slot in range(first, last)
SumSlots(term, first, last) ==
    SumSeq([n \in 1..Max2(last - first, 0) |-> term[first + n - 1]])

\* soft constraint 3 with an unmet slot weighing a hundredth of its weight,
\* less than an hour of contracted shortfall
CoverageTerms_light(ctx, keys, A) ==
    SumSeq([i \in 1..Len(ctx.coverage_requirements) |->
        LET req == ctx.coverage_requirements[i]
            first == time_to_slot(req.start_time)
            last == time_to_slot(req.end_time)
        IN  SumSlots([slot \in first..(last - 1) |->
                         CoverageSlotTerm(ctx, keys, A, req, slot) \div 100], first, last)])

\* soft constraint 3
CoverageTerms(ctx, keys, A) ==
    SumSeq([i \in 1..Len(ctx.coverage_requirements) |->
        LET req == ctx.coverage_requirements[i]
            first == time_to_slot(req.start_time)
            last == time_to_slot(req.end_time)
        IN  SumSlots([slot \in first..(last - 1) |->
                         CoverageSlotTerm(ctx, keys, A, req, slot)], first, last)])

\* emp.is_keyholder or emp.is_manager, by the name of the role
HasRole(e, role) == IF role = "keyholder" THEN e.is_keyholder ELSE e.is_manager

\* keyholder_vars and manager_vars: the variables of the employees with the
\* role that cover the slot, whatever their department
RoleVars(ctx, keys, day, slot, role) ==
    {k \in Range(keys) :
        /\ \E e \in Range(ctx.employees) : HasRole(e, role) /\ e.id = k.emp_id
        /\ k.day = day
        /\ shift_covers_slot(k, slot)}

\* existing_keyholders and existing_managers: the existing shifts active at
\* slot_dt whose employee is known and has the role
ExistingWithRole(ctx, slot_dt, role) ==
    Cardinality({i \in 1..Len(ctx.existing_shifts) :
        /\ ActiveAt(ctx.existing_shifts[i], slot_dt)
        /\ \E e \in EmployeesWithId(ctx.employees, ctx.existing_shifts[i].employee_id) :
              HasRole(e, role)})

\* objective terms of one role requirement at one day and slot
RoleSlotTerm(ctx, keys, A, req, day, slot) ==
    LET slot_dt == DT(day, slot_to_time(slot))
        existing_keyholders == ExistingWithRole(ctx, slot_dt, "keyholder")
        existing_managers == ExistingWithRole(ctx, slot_dt, "manager")
        keyholder_vars == RoleVars(ctx, keys, day, slot, "keyholder")
        manager_vars == RoleVars(ctx, keys, day, slot, "manager")
        needed_managers == req.min_manager_count - existing_managers
    IN  (IF req.requires_keyholder /\ existing_keyholders = 0
         THEN (IF keyholder_vars # {}
               THEN WEIGHT_UNMET_ROLE_SLOT
                        * Max2(0, 1 - Cardinality(A \cap keyholder_vars))
               ELSE WEIGHT_UNMET_ROLE_SLOT)
         ELSE 0)
        + (IF req.requires_manager /\ needed_managers > 0
           THEN (IF manager_vars # {}
                 THEN WEIGHT_UNMET_ROLE_SLOT
                          * Max2(0, needed_managers - Cardinality(A \cap manager_vars))
                 ELSE WEIGHT_UNMET_ROLE_SLOT * needed_managers)
           ELSE 0)

\* soft constraint 4
RoleTerms(ctx, keys, A) ==
    SumSeq([i \in 1..Len(ctx.role_requirements) |->
        LET req == ctx.role_requirements[i]
            days == role_days(req)
            first == time_to_slot(req.start_time)
            last == time_to_slot(req.end_time)
        IN  SumSeq([d \in 1..Len(days) |->
                SumSlots([slot \in first..(last - 1) |->
                             RoleSlotTerm(ctx, keys, A, req, days[d], slot)],
                         first, last)])])

\* soft constraints 5 and 6 for one employee: the shortfall and overtime
\* variables are fixed by AddMaxEquality
HoursTerms(ctx, keys, A, emp) ==
    LET required_slots == emp.contracted_weekly_hours * SLOTS_PER_HOUR
        needed_slots == required_slots - existing_slots(ctx, emp)
        has_vars == \E k \in Range(keys) : k.emp_id = emp.id
        total == total_new(keys, A, emp.id)
        shortfall == Max2(0, needed_slots - total)
        overtime == Max2(0, total + existing_slots(ctx, emp) - required_slots)
    IN  (IF needed_slots > 0 /\ has_vars
         THEN (WEIGHT_UNMET_CONTRACTED_HOUR \div SLOTS_PER_HOUR) * shortfall ELSE 0)
        + (IF has_vars THEN (WEIGHT_OVERTIME_HOUR \div SLOTS_PER_HOUR) * overtime ELSE 0)

\* soft constraints 7, 8 and 9 for one variable
KeyTerms(ctx, key) ==
    LET emp == CHOOSE e \in EmployeesWithId(ctx.employees, key.emp_id) : TRUE
        \* all(pref[day][s] for s in range(start, start + length))
        all_preferred ==
            \A sl \in key.start_slot..(key.start_slot + key.length - 1) :
                MatrixEntry(emp, ctx, key.day, sl).preferred
    IN  (IF key.dept_id = emp.primary_department_id
         THEN WEIGHT_PRIMARY_DEPT ELSE WEIGHT_NON_PRIMARY_DEPT)
        + (IF all_preferred THEN WEIGHT_PREFERRED_AVAIL ELSE 0)
        + _get_shift_length_bonus(key.length)

\* the value of sum(objective_terms) under an assignment
Objective(ctx, keys, A) ==
    CoverageTerms(ctx, keys, A)
    + RoleTerms(ctx, keys, A)
    + SumSeq([i \in 1..Len(ctx.employees) |-> HoursTerms(ctx, keys, A, ctx.employees[i])])
    + SumSeq([i \in 1..Len(keys) |-> IF keys[i] \in A THEN KeyTerms(ctx, keys[i]) ELSE 0])

\* the assignments a solve that proves optimality may return
OptimalSolutions(ctx, keys) ==
    LET sols == Solutions(ctx, keys)
        value == [A \in sols |-> Objective(ctx, keys, A)]
        values == {value[A] : A \in sols}
        best == CHOOSE v \in values : \A w \in values : w <= v
    IN  Then(value, {A \in sols : value[A] = best})

\* the Shift built for a variable whose value is 1
KeyShift(key) ==
    Shift(key.emp_id, key.dept_id,
          DT(key.day, slot_to_time(key.start_slot)),
          DT(key.day, slot_to_time(key.start_slot + key.length)))

\* the extraction loop: one shift per selected variable, in the order of shift_vars
ExtractShifts(keys, A) ==
    LET selected == SelectSeq(keys, LAMBDA k : k \in A)
    IN  [i \in 1..Len(selected) |-> KeyShift(selected[i])]

\* the slots range(req_start, req_end) as instants of a day
SlotTimes(day, start_time, end_time) ==
    LET first == time_to_slot(start_time)
        last == time_to_slot(end_time)
    IN  {DT(day, slot_to_time(slot)) : slot \in first..(last - 1)}

_check_unmet_coverage(shs, ctx) ==
    LET all_shifts == shs \o ctx.existing_shifts
        count(req, slot_dt) ==
            Cardinality({i \in 1..Len(all_shifts) :
                /\ all_shifts[i].department_id = req.department_id
                /\ ActiveAt(all_shifts[i], slot_dt)})
    IN  SelectSeq(ctx.coverage_requirements, LAMBDA req :
            \E slot_dt \in SlotTimes(req.day_of_week, req.start_time, req.end_time) :
                count(req, slot_dt) < req.min_staff)

_check_unmet_roles(shs, ctx) ==
    LET all_shifts == shs \o ctx.existing_shifts
        active(slot_dt) == {i \in 1..Len(all_shifts) :
                              /\ ActiveAt(all_shifts[i], slot_dt)
                              /\ EmployeesWithId(ctx.employees,
                                                 all_shifts[i].employee_id) # {}}
        emp_of(i) == CHOOSE e \in EmployeesWithId(ctx.employees,
                                                   all_shifts[i].employee_id) : TRUE
        fails(req, slot_dt) ==
            \/ req.requires_keyholder /\ ~(\E i \in active(slot_dt) : emp_of(i).is_keyholder)
            \/ /\ req.requires_manager
               /\ Cardinality({i \in active(slot_dt) : emp_of(i).is_manager})
                      < req.min_manager_count
    IN  SelectSeq(ctx.role_requirements, LAMBDA req :
            \E day \in Range(role_days(req)) :
                \E slot_dt \in SlotTimes(day, req.start_time, req.end_time) :
                    fails(req, slot_dt))

\* the dict employee_id -> shortfall as a sequence of <<id, shortfall minutes>>;
\* shortfall > 0.01 hours is 100 * minutes > 60
_check_unmet_hours(shs, ctx) ==
    LET shortfall(e) ==
            e.contracted_weekly_hours * MinutesPerHour
            - (calculate_employee_hours(shs, e.id)
               + _get_existing_hours(e.id, ctx.existing_shifts))
        short == SelectSeq(ctx.employees, LAMBDA e : shortfall(e) * 100 > MinutesPerHour)
    IN  [i \in 1..Len(short) |-> <<short[i].id, shortfall(short[i])>>]

\* the ScheduleResult of the branch status in (OPTIMAL, FEASIBLE)
SolutionResult(ctx, keys, A, solve_status) ==
    LET shs == ExtractShifts(keys, A)
        unmet_coverage == _check_unmet_coverage(shs, ctx)
        unmet_roles == _check_unmet_roles(shs, ctx)
        unmet_hours == _check_unmet_hours(shs, ctx)
        warnings == IF solve_status = FEASIBLE
                    THEN <<"Solution may not be optimal (time limit reached)">>
                    ELSE <<>>
    IN  ScheduleResult(unmet_coverage = <<>> /\ unmet_roles = <<>> /\ unmet_hours = <<>>,
                       shs, unmet_coverage, unmet_roles, unmet_hours, warnings)

\* the else branch gives no warning
NoSolutionResult_silent(solve_status) ==
    ScheduleResult(FALSE, <<>>, <<>>, <<>>, <<>>, <<>>)

\* the ScheduleResult of the else branch
NoSolutionResult(solve_status) ==
    ScheduleResult(FALSE, <<>>, <<>>, <<>>, <<>>,
                   <<Warning(solve_status, "Solver status - no valid schedule found")>>)

----------------------------------------------------------------------------
(* The contexts explored.  Every employee is on approved time off from some *)
(* instant of the week to its end, which keeps the planning horizon to      *)
(* Monday and Tuesday.                                                      *)

MaxMinStaff == 2
MaxContractedShifts == 1

Monday == 0
Tuesday == 1
WeekEnd == DT(7, 0)

StaffOptions(c) ==
    { <<Employee(1, FALSE, FALSE, c, <<1>>, 1)>>,
      <<Employee(1, TRUE, FALSE, c, <<1, 2>>, 1),
        Employee(2, FALSE, TRUE, 0, <<1>>, 1)>> }

ContractedOptions == {8 * k : k \in 0..MaxContractedShifts}

OffFrom(emps, from) == [i \in 1..Len(emps) |-> TimeOffRequest(emps[i].id, from, WeekEnd)]

\* unavailable on Monday until 23:00, available on Tuesday 10:00-14:00
RulesLateBlock(emps) ==
    Concat([i \in 1..Len(emps) |->
        <<AvailabilityRule(emps[i].id, Monday, UNAVAILABLE, HM(6, 0), HM(23, 0)),
          AvailabilityRule(emps[i].id, Tuesday, AVAILABLE, HM(10, 0), HM(14, 0))>>])

\* available on Monday in two adjacent windows
RulesSplit(emps) ==
    Concat([i \in 1..Len(emps) |->
        <<AvailabilityRule(emps[i].id, Monday, AVAILABLE, HM(6, 0), HM(10, 0)),
          AvailabilityRule(emps[i].id, Monday, AVAILABLE, HM(10, 0), HM(12, 0))>>])

\* available late on Monday and early on Tuesday
RulesRestPair(emps) ==
    Concat([i \in 1..Len(emps) |->
        <<AvailabilityRule(emps[i].id, Monday, AVAILABLE, HM(18, 0), HM(22, 0)),
          AvailabilityRule(emps[i].id, Tuesday, AVAILABLE, HM(6, 0), HM(10, 0))>>])

AvailabilityOptions(emps) ==
    { [rules |-> <<>>, time_off |-> OffFrom(emps, DT(Monday, HM(12, 0)))],
      [rules |-> RulesLateBlock(emps), time_off |-> OffFrom(emps, DT(2, 0))],
      [rules |-> RulesSplit(emps), time_off |-> OffFrom(emps, DT(Tuesday, 0))],
      [rules |-> RulesRestPair(emps), time_off |-> OffFrom(emps, DT(2, 0))] }

CoverageOptions ==
    { <<>>,
      <<CoverageRequirement(1, 1, Tuesday, HM(10, 0), HM(14, 0), 1)>>,
      <<CoverageRequirement(1, 1, Monday, HM(18, 0), HM(22, 0), 1),
        CoverageRequirement(2, 1, Tuesday, HM(6, 0), HM(10, 0), 1)>> }
    \cup { <<CoverageRequirement(1, 1, Monday, HM(8, 0), HM(12, 0), m)>> :
             m \in 1..MaxMinStaff }

RoleOptions ==
    { <<>>,
      <<RoleRequirement(1, NoDept, Monday, HM(7, 0), HM(10, 0), TRUE, FALSE, 0)>>,
      <<RoleRequirement(1, 2, Monday, HM(7, 0), HM(10, 0), TRUE, FALSE, 0)>> }

ExistingOptions ==
    { <<>>,
      <<Shift(1, 1, DT(Monday, HM(9, 0)), DT(Monday, HM(17, 0)))>>,
      <<Shift(1, 1, DT(Monday, HM(22, 0)), DT(Tuesday, HM(7, 0)))>> }

\* no function is being called on arguments of its own
NoCall == [fn |-> "none"]
NoReturn == <<>>

\* a solve is about to start on one context of the family
InitSolve ==
    /\ \E c \in ContractedOptions : \E emps \in StaffOptions(c) :
       \E av \in AvailabilityOptions(emps) : \E cov \in CoverageOptions :
       \E roles \in RoleOptions : \E existing \in ExistingOptions :
          context = ScheduleContext(emps, av.rules, av.time_off, cov, roles, existing)
    /\ pc = "start"
    /\ shifts = <<>>
    /\ employee_hours = <<>>
    /\ employee_days = <<>>
    /\ shift_vars = <<>>
    /\ status = NoStatus
    /\ result = NoResult
    /\ call = NoCall
    /\ ret = NoReturn
    /\ proposals = <<>>

----------------------------------------------------------------------------
(* The greedy solve: solver.solve_schedule, one action per phase of         *)
(* ScheduleSolver.solve.                                                    *)

Solver == [shifts |-> shifts, employee_hours |-> employee_hours,
           employee_days |-> employee_days]

SetSolver(st) ==
    /\ shifts' = st.shifts
    /\ employee_hours' = st.employee_hours
    /\ employee_days' = st.employee_days

\* solver = ScheduleSolver(context)
GreedyConstruct ==
    /\ pc = "start"
    /\ SetSolver(SolverInit(context))
    /\ pc' = "cover"
    /\ UNCHANGED <<proposals, call, ret, context, shift_vars, status, result>>

\* self._cover_requirements()
GreedyCover ==
    /\ pc = "cover"
    /\ SetSolver(_cover_requirements(context, Solver))
    /\ pc' = "roles"
    /\ UNCHANGED <<proposals, call, ret, context, shift_vars, status, result>>

\* self._satisfy_role_requirements()
GreedyRoles ==
    /\ pc = "roles"
    /\ SetSolver(_satisfy_role_requirements(context, Solver))
    /\ pc' = "fill"
    /\ UNCHANGED <<proposals, call, ret, context, shift_vars, status, result>>

\* self._fill_contracted_hours()
GreedyFill ==
    /\ pc = "fill"
    /\ SetSolver(_fill_contracted_hours(context, Solver))
    /\ pc' = "retry"
    /\ UNCHANGED <<proposals, call, ret, context, shift_vars, status, result>>

\* self._retry_coverage_gaps()
GreedyRetry ==
    /\ pc = "retry"
    /\ SetSolver(_retry_coverage_gaps(context, Solver))
    /\ pc' = "build"
    /\ UNCHANGED <<proposals, call, ret, context, shift_vars, status, result>>

\* return self._build_result()
GreedyBuildResult ==
    /\ pc = "build"
    /\ result' = _build_result(context, Solver)
    /\ pc' = "greedy_done"
    /\ UNCHANGED <<proposals, call, ret, context, shifts, employee_hours, employee_days, shift_vars, status>>

\* the phases of ScheduleSolver.solve
GreedyPhases ==
    \/ GreedyCover
    \/ GreedyRoles
    \/ GreedyFill
    \/ GreedyRetry
    \/ GreedyBuildResult

GreedyNext == GreedyConstruct \/ GreedyPhases

SpecGreedy == InitSolve /\ [][GreedyNext]_vars

----------------------------------------------------------------------------
(* The CP-SAT solve: or_solver.solve_schedule.  solver.Solve is the OR-Tools *)
(* backend; under its time limit it returns OPTIMAL with an assignment of    *)
(* maximal objective, FEASIBLE with any assignment that meets the hard       *)
(* constraints, or UNKNOWN with none.                                        *)

\* the model is built: decision variables, constraints, objective
CpBuildModel ==
    /\ pc = "start"
    /\ shift_vars' = ShiftVarKeys(context)
    /\ pc' = "model"
    /\ UNCHANGED <<proposals, call, ret, context, shifts, employee_hours, employee_days, status, result>>

\* status == OPTIMAL, and the extraction of the result
CpSolveOptimal ==
    /\ pc = "model"
    /\ \E A \in OptimalSolutions(context, shift_vars) :
          result' = SolutionResult(context, shift_vars, A, OPTIMAL)
    /\ status' = OPTIMAL
    /\ pc' = "cpsat_done"
    /\ UNCHANGED <<proposals, call, ret, context, shifts, employee_hours, employee_days, shift_vars>>

\* status == FEASIBLE, and the extraction of the result
CpSolveFeasible ==
    /\ pc = "model"
    /\ \E A \in Solutions(context, shift_vars) :
          result' = SolutionResult(context, shift_vars, A, FEASIBLE)
    /\ status' = FEASIBLE
    /\ pc' = "cpsat_done"
    /\ UNCHANGED <<proposals, call, ret, context, shifts, employee_hours, employee_days, shift_vars>>

\* any other status: the else branch
CpSolveNoSolution ==
    /\ pc = "model"
    /\ result' = NoSolutionResult(UNKNOWN)
    /\ status' = UNKNOWN
    /\ pc' = "cpsat_done"
    /\ UNCHANGED <<proposals, call, ret, context, shifts, employee_hours, employee_days, shift_vars>>

CpSatNext ==
    \/ CpBuildModel
    \/ CpSolveOptimal
    \/ CpSolveFeasible
    \/ CpSolveNoSolution

SpecCpSat == InitSolve /\ [][CpSatNext]_vars

----------------------------------------------------------------------------
(* availability.py called on arguments of its own: get_availability_for_slot *)
(* on a rule list and a slot, can_employee_work_shift on a shift window.     *)

MaxRules == 2

\* the rules a list is drawn from: employee 1 on Monday with every rule type,
\* all day, over 08:00-12:00, over 12:00-16:00 or with a start and no end;
\* and one rule of another employee and one of another day
RulePool ==
    { AvailabilityRule(1, Monday, t, w[1], w[2]) :
        t \in {AVAILABLE, UNAVAILABLE, PREFERRED},
        w \in { <<NoTime, NoTime>>, <<HM(8, 0), HM(12, 0)>>,
                <<HM(12, 0), HM(16, 0)>>, <<HM(8, 0), NoTime>> } }
    \cup { AvailabilityRule(2, Monday, UNAVAILABLE, NoTime, NoTime),
           AvailabilityRule(1, Tuesday, UNAVAILABLE, NoTime, NoTime) }

RuleLists == UNION { [1..n -> RulePool] : n \in 0..MaxRules }

\* slots inside the first window, across both windows, inside the second
SlotOptions ==
    { <<HM(8, 0), HM(12, 0)>>, <<HM(10, 0), HM(14, 0)>>, <<HM(12, 0), HM(14, 0)>> }

ClassifyCalls ==
    { [fn |-> "get_availability_for_slot", employee_id |-> 1, day_of_week |-> Monday,
       slot_start |-> sl[1], slot_end |-> sl[2], rules |-> rules] :
        sl \in SlotOptions, rules \in RuleLists }

\* the rule lists of a can_employee_work_shift call
CanWorkRules ==
    { <<>>,
      <<AvailabilityRule(1, Monday, UNAVAILABLE, HM(12, 0), HM(16, 0))>>,
      <<AvailabilityRule(1, Monday, AVAILABLE, HM(8, 0), HM(12, 0))>>,
      <<AvailabilityRule(2, Monday, UNAVAILABLE, NoTime, NoTime)>>,
      <<AvailabilityRule(1, Tuesday, UNAVAILABLE, NoTime, NoTime)>> }

\* time off: none, of the employee over Monday noon, of the employee from
\* Monday noon on, of another employee all Monday
CanWorkTimeOff ==
    { <<>>,
      <<TimeOffRequest(1, DT(Monday, HM(11, 0)), DT(Monday, HM(13, 0)))>>,
      <<TimeOffRequest(1, DT(Monday, HM(12, 0)), DT(Tuesday, 0))>>,
      <<TimeOffRequest(2, DT(Monday, 0), DT(Tuesday, 0))>> }

\* shifts: none, of the employee over Monday noon, of the employee from Monday
\* noon on, of another employee at the same time
CanWorkShifts ==
    { <<>>,
      <<Shift(1, 1, DT(Monday, HM(11, 0)), DT(Monday, HM(15, 0)))>>,
      <<Shift(1, 1, DT(Monday, HM(12, 0)), DT(Monday, HM(16, 0)))>>,
      <<Shift(2, 1, DT(Monday, HM(8, 0)), DT(Monday, HM(16, 0)))>> }

CanWorkCalls ==
    { [fn |-> "can_employee_work_shift",
       employee |-> Employee(1, FALSE, FALSE, 0, <<1>>, 1),
       shift_start |-> DT(Monday, sl[1]), shift_end |-> DT(Monday, sl[2]),
       department_id |-> d, availability_rules |-> rules,
       time_off_requests |-> off, existing_shifts |-> shs] :
        sl \in SlotOptions, d \in {1, 2}, rules \in CanWorkRules,
        off \in CanWorkTimeOff, shs \in CanWorkShifts }

\* the solver's variables while a function is called on arguments of its own
NoSolve ==
    /\ context = ScheduleContext(<<>>, <<>>, <<>>, <<>>, <<>>, <<>>)
    /\ shifts = <<>>
    /\ employee_hours = <<>>
    /\ employee_days = <<>>
    /\ shift_vars = <<>>
    /\ status = NoStatus
    /\ result = NoResult

InitAvailability ==
    /\ call \in ClassifyCalls \cup CanWorkCalls
    /\ ret = NoReturn
    /\ proposals = <<>>
    /\ pc = "call"
    /\ NoSolve

\* the call returns `value`
Return(value) ==
    /\ ret' = value
    /\ pc' = "returned"
    /\ UNCHANGED <<proposals, call, context, shifts, employee_hours, employee_days, shift_vars,
                   status, result>>

CallGetAvailabilityForSlot ==
    /\ pc = "call"
    /\ call.fn = "get_availability_for_slot"
    /\ Return(get_availability_for_slot(call.employee_id, call.day_of_week,
                  call.slot_start, call.slot_end, call.rules))

\* the returned (bool, str) is the pair <<can_work, reason>>
CallCanEmployeeWorkShift ==
    /\ pc = "call"
    /\ call.fn = "can_employee_work_shift"
    /\ Return(<<can_employee_work_shift(call.employee, call.shift_start,
                    call.shift_end, call.department_id, call.availability_rules,
                    call.time_off_requests, call.existing_shifts),
                can_work_reason(call.employee, call.shift_start,
                    call.shift_end, call.department_id, call.availability_rules,
                    call.time_off_requests, call.existing_shifts)>>)

AvailabilityNext == CallGetAvailabilityForSlot \/ CallCanEmployeeWorkShift

SpecAvailability == InitAvailability /\ [][AvailabilityNext]_vars

(* Calls of the validator's window checks (constraints.py) on shift lists   *)
(* of their own: the lists may hold double bookings and shifts that end at  *)
(* a sample instant.                                                        *)

\* the longest list of shifts beside the week-long base
MaxListedShifts == 2

\* keyholder 1 and manager 2
ValidatorEmployees ==
    << Employee(1, TRUE, FALSE, 0, <<1, 2>>, 1),
       Employee(2, FALSE, TRUE, 0, <<1>>, 1) >>

ShiftPool ==
    { Shift(1, 1, DT(Monday, HM(4, 0)), DT(Monday, HM(8, 0))),
      Shift(1, 1, DT(Monday, HM(4, 0)), DT(Monday, HM(9, 0))),
      Shift(1, 2, DT(Monday, HM(8, 0)), DT(Monday, HM(12, 0))),
      Shift(2, 1, DT(Monday, HM(8, 0)), DT(Monday, HM(12, 0))),
      Shift(2, 1, DT(Monday, HM(6, 0)), DT(Monday, HM(10, 0))),
      Shift(2, 1, DT(Tuesday, HM(8, 0)), DT(Tuesday, HM(12, 0))) }

ListedShifts == UNION { [1..n -> ShiftPool] : n \in 0..MaxListedShifts }

\* the keyholder works 08:00-12:00 in department 1 on each day from `first`
KeyholderWeek(first) ==
    [i \in 1..(7 - first) |->
        Shift(1, 1, DT(first + i - 1, HM(8, 0)), DT(first + i - 1, HM(12, 0)))]

BaseShifts == {<<>>, KeyholderWeek(0), KeyholderWeek(1)}

CoverageCalls ==
    [ fn : {"check_coverage_for_window"},
      shifts : ListedShifts,
      requirement : { CoverageRequirement(1, dept, Monday, HM(8, 0), HM(10, 0), staff) :
                        dept \in {1, 2}, staff \in 1..MaxMinStaff } ]

RoleWindowCalls ==
    { [ fn |-> "check_role_requirement_for_window",
        shifts |-> base \o listed,
        employees |-> ValidatorEmployees,
        requirement |-> RoleRequirement(1, dept, day, HM(8, 0), HM(9, 0), kh, mgr, cnt) ] :
        base \in BaseShifts, listed \in ListedShifts, dept \in {NoDept, 1},
        day \in {NoDay, Monday}, kh \in BOOLEAN, mgr \in BOOLEAN, cnt \in 1..2 }

InitValidator ==
    /\ call \in CoverageCalls \cup RoleWindowCalls
    /\ ret = NoReturn
    /\ proposals = <<>>
    /\ pc = "call"
    /\ NoSolve

\* the returned (bool, list[datetime]) is the pair <<is_met, gaps>>
CallCheckCoverageForWindow ==
    /\ pc = "call"
    /\ call.fn = "check_coverage_for_window"
    /\ Return(<<check_coverage_for_window(call.shifts, call.requirement),
                coverage_gaps_for_window(call.shifts, call.requirement)>>)

CallCheckRoleRequirementForWindow ==
    /\ pc = "call"
    /\ call.fn = "check_role_requirement_for_window"
    /\ Return(<<check_role_requirement_for_window(call.shifts, call.employees,
                                                  call.requirement),
                role_gaps_for_window(call.shifts, call.employees, call.requirement)>>)

ValidatorNext == CallCheckCoverageForWindow \/ CallCheckRoleRequirementForWindow

SpecValidator == InitValidator /\ [][ValidatorNext]_vars

(* The entry points of generator.py.  call.week_start is the weekday() of   *)
(* the week_start date (0 is Monday); `context` is the context handed to    *)
(* generate_schedule_from_context, or the one load_schedule_context builds  *)
(* from the database.  The contexts have no requirement, no contracted      *)
(* hours and no existing shift, so that no step of the solve depends on the *)
(* weekday of a date.                                                       *)

EntryContexts ==
    UNION { { ScheduleContext(emps, av.rules, av.time_off, <<>>, <<>>, <<>>) :
                av \in AvailabilityOptions(emps) } : emps \in StaffOptions(0) }

EntryCalls ==
    [ fn : {"generate_schedule", "generate_schedule_from_context"},
      week_start : 0..6 ]

InitEntry ==
    /\ call \in EntryCalls
    /\ context \in EntryContexts
    /\ ret = NoReturn
    /\ proposals = <<>>
    /\ pc = "entry"
    /\ shifts = <<>>
    /\ employee_hours = <<>>
    /\ employee_days = <<>>
    /\ shift_vars = <<>>
    /\ status = NoStatus
    /\ result = NoResult

\* generate_schedule: load_schedule_context raises ValueError
LoadScheduleContextRaises ==
    /\ pc = "entry"
    /\ call.fn = "generate_schedule"
    /\ call.week_start # 0
    /\ ret' = "ValueError"
    /\ pc' = "raised"
    /\ UNCHANGED <<proposals, call, context, shifts, employee_hours, employee_days, shift_vars,
                   status, result>>

\* generate_schedule: the context is loaded and solve_schedule constructs the
\* solver
GenerateSchedule ==
    /\ pc = "entry"
    /\ call.fn = "generate_schedule"
    /\ call.week_start = 0
    /\ SetSolver(SolverInit(context))
    /\ pc' = "cover"
    /\ UNCHANGED <<proposals, call, ret, context, shift_vars, status, result>>

\* generate_schedule_from_context: solve_schedule constructs the solver
GenerateScheduleFromContext ==
    /\ pc = "entry"
    /\ call.fn = "generate_schedule_from_context"
    /\ SetSolver(SolverInit(context))
    /\ pc' = "cover"
    /\ UNCHANGED <<proposals, call, ret, context, shift_vars, status, result>>

EntryNext == LoadScheduleContextRaises \/ GenerateSchedule \/ GenerateScheduleFromContext

\* the entry points, followed by the phases of the greedy solve
SpecEntry == InitEntry /\ [][EntryNext \/ GreedyPhases]_vars

(* Two solves side by side: one context of the family, and the same context *)
(* with the min_staff of one coverage requirement raised by one.            *)

\* the contexts of InitSolve
SolveContexts ==
    UNION { UNION { { ScheduleContext(emps, av.rules, av.time_off, cov, roles, existing) :
                        av \in AvailabilityOptions(emps), cov \in CoverageOptions,
                        roles \in RoleOptions, existing \in ExistingOptions } :
                    emps \in StaffOptions(c) } : c \in ContractedOptions }

\* two employees of department 1, each available on Monday 10:30-14:30 only
\* and on time off from Monday 22:00, and one coverage requirement over that
\* window
HalfHourContexts ==
    { ScheduleContext(
          <<Employee(1, FALSE, FALSE, c, <<1>>, 1), Employee(2, FALSE, FALSE, c, <<1>>, 1)>>,
          <<AvailabilityRule(1, Monday, AVAILABLE, HM(10, 30), HM(14, 30)),
            AvailabilityRule(2, Monday, AVAILABLE, HM(10, 30), HM(14, 30))>>,
          <<TimeOffRequest(1, DT(Monday, HM(22, 0)), WeekEnd),
            TimeOffRequest(2, DT(Monday, HM(22, 0)), WeekEnd)>>,
          <<CoverageRequirement(1, 1, Monday, HM(10, 30), HM(14, 30), m)>>,
          <<>>, <<>>) :
        c \in ContractedOptions, m \in 1..MaxMinStaff }

TightenCalls ==
    UNION { [ fn : {"solver.solve_schedule", "or_solver.solve_schedule"},
              context : {c},
              requirement : 1..Len(c.coverage_requirements) ] :
            c \in SolveContexts \cup HalfHourContexts }

\* the context of the call with the min_staff of its requirement raised
Tightened(c) ==
    [c.context EXCEPT !.coverage_requirements[c.requirement].min_staff = @ + 1]

InitTighten ==
    /\ call \in TightenCalls
    /\ ret = NoReturn
    /\ proposals = <<>>
    /\ pc = "call"
    /\ NoSolve

\* solver.solve_schedule(context): ScheduleSolver(context).solve()
GreedySolve(ctx) ==
    _build_result(ctx,
        _retry_coverage_gaps(ctx,
            _fill_contracted_hours(ctx,
                _satisfy_role_requirements(ctx,
                    _cover_requirements(ctx, SolverInit(ctx))))))

\* both contexts are solved by the greedy solver
SolveBothGreedy ==
    /\ pc = "call"
    /\ call.fn = "solver.solve_schedule"
    /\ Return(<<GreedySolve(call.context), GreedySolve(Tightened(call))>>)

\* both contexts are solved by the CP-SAT solver, each to status OPTIMAL
SolveBothCpSat ==
    /\ pc = "call"
    /\ call.fn = "or_solver.solve_schedule"
    /\ \E A \in OptimalSolutions(call.context, ShiftVarKeys(call.context)) :
       \E B \in OptimalSolutions(Tightened(call), ShiftVarKeys(Tightened(call))) :
          Return(<<SolutionResult(call.context, ShiftVarKeys(call.context), A, OPTIMAL),
                   SolutionResult(Tightened(call), ShiftVarKeys(Tightened(call)), B,
                                  OPTIMAL)>>)

TightenNext == SolveBothGreedy \/ SolveBothCpSat

SpecTighten == InitTighten /\ [][TightenNext]_vars

(* Solves of contexts that hold one keyholder role requirement and nothing  *)
(* else: no coverage requirement, no availability rule, no time off, no     *)
(* existing shift.  Every employee is free on the seven days.               *)

KeyholderStaff ==
    { <<Employee(1, TRUE, FALSE, 0, <<1>>, 1), Employee(2, FALSE, FALSE, 0, <<1>>, 1)>>,
      <<Employee(1, TRUE, FALSE, 0, <<1>>, 1), Employee(2, TRUE, FALSE, 0, <<1>>, 1)>> }

\* <<first hour, hours>> of the role window
KeyholderWindows == { <<7, 3>>, <<10, 2>>, <<18, 4>> }

KeyholderContexts ==
    { ScheduleContext(emps, <<>>, <<>>, <<>>,
          <<RoleRequirement(1, dept, Monday, HM(w[1], 0), HM(w[1] + w[2], 0),
                            TRUE, FALSE, 0)>>,
          <<>>) :
        emps \in KeyholderStaff, w \in KeyholderWindows, dept \in {NoDept, 1} }

KeyholderCalls ==
    [ fn : {"solve_schedule"}, solver : {"greedy", "cpsat"}, context : KeyholderContexts ]

InitKeyholder ==
    /\ call \in KeyholderCalls
    /\ ret = NoReturn
    /\ proposals = <<>>
    /\ pc = "call"
    /\ NoSolve

\* what one variable adds to the objective when no employee has contracted
\* hours or existing shifts: its own terms and the overtime of its slots
KeyValue(ctx, key) ==
    KeyTerms(ctx, key) + (WEIGHT_OVERTIME_HOUR \div SLOTS_PER_HOUR) * key.length

\* no assignment with at most one shift per employee and day exceeds this
\* value of the objective, when no employee has contracted hours or existing
\* shifts: the coverage and role terms are never positive
ObjectiveBound(ctx, keys) ==
    SumSeq([i \in 1..Len(ctx.employees) |->
        SumSeq([d \in 1..7 |->
            LET values == {KeyValue(ctx, k) :
                              k \in get_emp_day_shifts(keys, ctx.employees[i].id, d - 1)}
            IN  IF values = {} THEN 0
                ELSE Max2(0, CHOOSE v \in values : \A w \in values : w <= v)])])

\* every employee works a shift of MIN_SHIFT_HOURS in the primary department
\* each day: from 10:00, and on the day of the role requirement from the slot
\* starts[i]
DailyAssignment(ctx, starts) ==
    { ShiftKey(ctx.employees[i].id, d, 
               IF d = ctx.role_requirements[1].day_of_week THEN starts[i] ELSE 4,
               MIN_SHIFT_HOURS * SLOTS_PER_HOUR, ctx.employees[i].primary_department_id) :
        i \in 1..Len(ctx.employees), d \in 0..6 }

\* solver.solve_schedule(context)
KeyholderGreedy ==
    /\ pc = "call"
    /\ call.fn = "solve_schedule"
    /\ call.solver = "greedy"
    /\ Return(GreedySolve(call.context))

\* of the assignments an optimal solve may return, those among the daily
\* assignments that are proved optimal by reaching the bound of the objective
ProvedOptimal(ctx, keys, bound) ==
    LET candidates == {DailyAssignment(ctx, starts) :
                          starts \in [1..Len(ctx.employees) ->
                              0..(SLOTS_PER_DAY - MIN_SHIFT_HOURS * SLOTS_PER_HOUR)]}
    IN  {A \in candidates :
            /\ A \subseteq Range(keys)
            /\ Objective(ctx, keys, A) = bound
            /\ HardConstraints(ctx, keys, A)}

\* or_solver.solve_schedule(context) with status OPTIMAL
KeyholderCpSat ==
    /\ pc = "call"
    /\ call.fn = "solve_schedule"
    /\ call.solver = "cpsat"
    /\ \E A \in ProvedOptimal(call.context, ShiftVarKeys(call.context),
                               ObjectiveBound(call.context, ShiftVarKeys(call.context))) :
          Return(SolutionResult(call.context, ShiftVarKeys(call.context), A, OPTIMAL))

KeyholderNext == KeyholderGreedy \/ KeyholderCpSat

SpecKeyholder == InitKeyholder /\ [][KeyholderNext]_vars

(* Calls of the greedy solver's scoring and candidate search on a solver    *)
(* object built from a context of their own.                                *)

\* the most four-hour shifts the scored employee already has in the week
MaxWorkedShifts == 3

Friday == 4

\* contracted weekly hours of the scored employee
ScoreContracted == {0, 4, 8, 10, 12, 16, 20}

\* one manager of department 1 with `worked` four-hour shifts, one a day from
\* Monday on
ScoreContext(contracted, worked) ==
    ScheduleContext(<<Employee(1, FALSE, TRUE, contracted, <<1>>, 1)>>,
                    <<>>, <<>>, <<>>, <<>>,
                    [i \in 1..worked |->
                        Shift(1, 1, DT(i - 1, HM(10, 0)), DT(i - 1, HM(14, 0)))])

\* _score_shift on a Friday shift of every palette length
ScoreCalls ==
    { [fn |-> "_score_shift", context |-> ScoreContext(c, w),
       shift |-> Shift(1, 1, DT(Friday, HM(10, 0)),
                       DT(Friday, HM(10, 0)) + MANAGER_SHIFT_LENGTHS[k] * MinutesPerHour),
       employee |-> 1, department_id |-> 1] :
        c \in ScoreContracted, w \in 0..MaxWorkedShifts,
        k \in 1..Len(MANAGER_SHIFT_LENGTHS) }

\* solver = ScheduleSolver(context); solver._score_shift(shift, employee, department_id)
CallScoreShift ==
    /\ pc = "call"
    /\ call.fn = "_score_shift"
    /\ Return(_score_shift(call.context, SolverInit(call.context), call.shift,
                           call.context.employees[call.employee], call.department_id))

\* contracted weekly hours of the two employees of a candidate search
BestContracted == {0, 4, 8}

\* employee 1 (manager or not) and employee 2 of department 1, in both orders
BestStaff ==
    { Reorder(<<Employee(1, FALSE, m, c1, <<1>>, 1), Employee(2, FALSE, FALSE, c2, <<1>>, 1)>>,
              order) :
        m \in BOOLEAN, c1 \in BestContracted, c2 \in BestContracted,
        order \in {<<1, 2>>, <<2, 1>>} }

BestRules ==
    { <<>>,
      <<AvailabilityRule(1, Monday, PREFERRED, HM(12, 0), HM(20, 0))>>,
      <<AvailabilityRule(1, Monday, AVAILABLE, HM(6, 0), HM(22, 0)),
        AvailabilityRule(2, Monday, PREFERRED, HM(8, 0), HM(16, 0))>> }

\* <<window_start, window_end, target_time>> of a Monday coverage window
BestWindows ==
    { <<HM(10, 0), HM(14, 0), HM(10, 0)>>, <<HM(12, 0), HM(20, 0), HM(13, 30)>> }

\* _find_best_shift_for_time for department 1 on a solver without shifts
BestCalls ==
    { [fn |-> "_find_best_shift_for_time",
       context |-> ScheduleContext(emps, rules, <<>>, <<>>, <<>>, <<>>),
       target_time |-> DT(Monday, w[3]), department_id |-> 1,
       window_start |-> DT(Monday, w[1]), window_end |-> DT(Monday, w[2])] :
        emps \in BestStaff, rules \in BestRules, w \in BestWindows }

\* solver = ScheduleSolver(context); solver._find_best_shift_for_time(...):
\* <<>> for None, <<shift>> otherwise
CallFindBestShiftForTime ==
    /\ pc = "call"
    /\ call.fn = "_find_best_shift_for_time"
    /\ Return(_find_best_shift_for_time(call.context, SolverInit(call.context),
                  call.target_time, call.department_id, call.window_start,
                  call.window_end))

\* keyholder 1 and manager 2, then an employee who is both
RoleStaff ==
    { <<Employee(1, TRUE, FALSE, 0, <<1>>, 1), Employee(2, FALSE, TRUE, 0, <<1>>, 1)>>,
      <<Employee(1, TRUE, FALSE, 0, <<1>>, 1), Employee(2, FALSE, TRUE, 0, <<1>>, 1),
        Employee(3, TRUE, TRUE, 0, <<1>>, 1)>> }

\* nobody at work, or employee 1 or employee 2 at work on Monday morning
RoleExisting ==
    { <<>> } \cup { <<Shift(e, 1, DT(Monday, HM(6, 0)), DT(Monday, HM(14, 0)))>> : e \in {1, 2} }

\* requirements on Monday 08:00-12:00 that ask for a keyholder, for managers
\* or for both
RoleAsked ==
    { RoleRequirement(1, dept, Monday, HM(8, 0), HM(12, 0), caps[1], caps[2], cnt) :
        dept \in {NoDept, 1},
        caps \in {<<TRUE, FALSE>>, <<FALSE, TRUE>>, <<TRUE, TRUE>>}, cnt \in 1..2 }

\* _find_role_shift at a sample instant where the requirement is not met, as
\* _satisfy_single_role_requirement calls it
RoleCalls ==
    { c \in [fn : {"_find_role_shift"},
             context : { ScheduleContext(emps, <<>>, <<>>, <<>>, <<req>>, existing) :
                            emps \in RoleStaff, req \in RoleAsked,
                            existing \in RoleExisting },
             target_time : { DT(Monday, HM(8, 0)), DT(Monday, HM(10, 30)) }] :
        ~check_role_requirement_at_time(SolverInit(c.context).shifts,
              c.context.employees, c.context.role_requirements[1], c.target_time) }

\* solver = ScheduleSolver(context); solver._find_role_shift(req, current,
\* window_start, window_end, day): <<>> for None, <<shift>> otherwise
CallFindRoleShift ==
    /\ pc = "call"
    /\ call.fn = "_find_role_shift"
    /\ LET req == call.context.role_requirements[1]
       IN  Return(_find_role_shift(call.context, SolverInit(call.context), req,
                      call.target_time, DT(req.day_of_week, req.start_time),
                      DT(req.day_of_week, req.end_time), req.day_of_week))

InitScoring ==
    /\ call \in ScoreCalls \cup BestCalls \cup RoleCalls
    /\ ret = NoReturn
    /\ proposals = <<>>
    /\ pc = "call"
    /\ NoSolve

ScoringNext == CallScoreShift \/ CallFindBestShiftForTime \/ CallFindRoleShift

SpecScoring == InitScoring /\ [][ScoringNext]_vars

(* CP-SAT solves on contexts where coverage and contracted hours compete:    *)
(* a late shift on Monday is longer than the early Tuesday shift that the   *)
(* coverage requirement needs, and the 12-hour rest excludes having both.   *)

\* contracted weekly hours of the employees
PriorityContracted == {8, 16}

\* employee 1, or employees 1 and 2, of department 1
PriorityStaff ==
    UNION { { <<Employee(1, FALSE, FALSE, c, <<1>>, 1)>>,
              <<Employee(1, FALSE, FALSE, c, <<1>>, 1),
                Employee(2, FALSE, FALSE, c, <<1>>, 1)>> } : c \in PriorityContracted }

\* available on Monday from `from` to 22:00 and on Tuesday 06:00-10:00
RulesLateEarly(emps, from) ==
    Concat([i \in 1..Len(emps) |->
        <<AvailabilityRule(emps[i].id, Monday, AVAILABLE, from, HM(22, 0)),
          AvailabilityRule(emps[i].id, Tuesday, AVAILABLE, HM(6, 0), HM(10, 0))>>])

PriorityCoverage ==
    { <<CoverageRequirement(1, 1, Tuesday, HM(6, 0), HM(10, 0), m)>> :
         m \in 1..MaxMinStaff }
    \cup { <<CoverageRequirement(1, 1, Monday, HM(18, 0), HM(22, 0), 1),
             CoverageRequirement(2, 1, Tuesday, HM(6, 0), HM(10, 0), 1)>>,
           <<CoverageRequirement(1, 1, Monday, HM(16, 0), HM(22, 0), 1)>> }

PriorityContexts ==
    { ScheduleContext(emps, RulesLateEarly(emps, from), OffFrom(emps, DT(2, 0)),
                      cov, <<>>, <<>>) :
        emps \in PriorityStaff, from \in {HM(14, 0), HM(16, 0), HM(18, 0)},
        cov \in PriorityCoverage }

InitPriority ==
    /\ context \in PriorityContexts
    /\ pc = "start"
    /\ shifts = <<>>
    /\ employee_hours = <<>>
    /\ employee_days = <<>>
    /\ shift_vars = <<>>
    /\ status = NoStatus
    /\ result = NoResult
    /\ call = NoCall
    /\ ret = NoReturn
    /\ proposals = <<>>

SpecPriority == InitPriority /\ [][CpSatNext]_vars

(* api/routes/ai_proposals.py: the approve, reject and cancel routes.  Each  *)
(* request is served by one user on one proposal id; the response is the    *)
(* HTTP status code.  Optional columns hold <<>> for None and <<v>> for v.  *)

PENDING == "PENDING"
APPROVED == "APPROVED"
REJECTED == "REJECTED"
CANCELLED == "CANCELLED"

AVAILABILITY == "AVAILABILITY"
COVERAGE == "COVERAGE"

\* a row of ai_proposals as create_ai_proposal leaves it, with the users its
\* AI output affects and its AI input was requested by
AIProposals(type, affects_user_id, req_by_user_id) ==
    [type |-> type, affects_user_id |-> affects_user_id,
     req_by_user_id |-> req_by_user_id, status |-> PENDING,
     rejection_reason |-> <<>>, last_actioned_by |-> <<>>]

\* an active user and the roles of its UserRoles rows
Users(id, roles) == [id |-> id, roles |-> roles]

\* deps.require_manager_or_admin passes
require_manager_or_admin(current_user) ==
    current_user.roles \cap {"ADMIN", "MANAGER"} # {}

\* deps.is_admin
is_admin(user) == "ADMIN" \in user.roles

\* deps.user_owns_proposal
user_owns_proposal(user, proposal) ==
    \/ proposal.affects_user_id = user.id
    \/ proposal.req_by_user_id = user.id

\* raise HTTPException(status_code): the table stays as it is
HTTPException(table, status_code) ==
    [proposals |-> table, status_code |-> status_code]

\* db.commit(); return proposal
Committed(table) == [proposals |-> table, status_code |-> 200]

\* approve_proposal without the check that the proposal is pending
approve_proposal_any_status(table, proposal_id, current_user) ==
    IF ~require_manager_or_admin(current_user) THEN HTTPException(table, 403)
    ELSE IF proposal_id \notin DOMAIN table THEN HTTPException(table, 404)
    ELSE IF table[proposal_id].type # AVAILABILITY /\ ~is_admin(current_user)
    THEN HTTPException(table, 403)
    ELSE Committed([table EXCEPT ![proposal_id].status = APPROVED,
                                 ![proposal_id].last_actioned_by = <<current_user.id>>])

\* PATCH /ai-proposals/{proposal_id}/approve
approve_proposal(table, proposal_id, current_user) ==
    IF ~require_manager_or_admin(current_user) THEN HTTPException(table, 403)
    ELSE IF proposal_id \notin DOMAIN table THEN HTTPException(table, 404)
    ELSE IF table[proposal_id].status # PENDING THEN HTTPException(table, 400)
    ELSE IF table[proposal_id].type # AVAILABILITY /\ ~is_admin(current_user)
    THEN HTTPException(table, 403)
    ELSE Committed([table EXCEPT ![proposal_id].status = APPROVED,
                                 ![proposal_id].last_actioned_by = <<current_user.id>>])

\* PATCH /ai-proposals/{proposal_id}/reject
reject_proposal(table, proposal_id, rejection_reason, current_user) ==
    IF ~require_manager_or_admin(current_user) THEN HTTPException(table, 403)
    ELSE IF proposal_id \notin DOMAIN table THEN HTTPException(table, 404)
    ELSE IF table[proposal_id].status # PENDING THEN HTTPException(table, 400)
    ELSE IF table[proposal_id].type # AVAILABILITY /\ ~is_admin(current_user)
    THEN HTTPException(table, 403)
    ELSE Committed([table EXCEPT ![proposal_id].status = REJECTED,
                                 ![proposal_id].rejection_reason = rejection_reason,
                                 ![proposal_id].last_actioned_by = <<current_user.id>>])

\* PATCH /ai-proposals/{proposal_id}/cancel
cancel_proposal(table, proposal_id, current_user) ==
    IF proposal_id \notin DOMAIN table THEN HTTPException(table, 404)
    ELSE IF table[proposal_id].status # PENDING THEN HTTPException(table, 400)
    ELSE IF ~user_owns_proposal(current_user, table[proposal_id]) /\ ~is_admin(current_user)
    THEN HTTPException(table, 403)
    ELSE Committed([table EXCEPT ![proposal_id].status = CANCELLED,
                                 ![proposal_id].last_actioned_by = <<current_user.id>>])

\* the rows of the table
MaxProposals == 2

\* an admin, a manager and two users without a role
ProposalUsers ==
    { Users(1, {"ADMIN"}), Users(2, {"MANAGER"}), Users(3, {}), Users(4, {}) }

\* the proposal ids of the requests: the rows and one id that has no row
RequestedIds == 1..(MaxProposals + 1)

RejectionReasons == { <<>>, <<"not needed">> }

\* proposals of user 3, of both kinds of type
InitProposals ==
    /\ proposals \in [1..MaxProposals ->
                         { AIProposals(type, 3, 3) : type \in {AVAILABILITY, COVERAGE} }]
    /\ pc = "serving"
    /\ call = NoCall
    /\ ret = NoReturn
    /\ NoSolve

\* the response is sent and the table is as the route left it
Respond(request, response) ==
    /\ call' = request
    /\ ret' = [status_code |-> response.status_code]
    /\ proposals' = response.proposals
    /\ UNCHANGED <<context, pc, shifts, employee_hours, employee_days, shift_vars,
                   status, result>>

ApproveProposal ==
    /\ pc = "serving"
    /\ \E id \in RequestedIds : \E u \in ProposalUsers :
          Respond([fn |-> "approve_proposal", proposal_id |-> id, current_user |-> u],
                  approve_proposal(proposals, id, u))

RejectProposal ==
    /\ pc = "serving"
    /\ \E id \in RequestedIds : \E u \in ProposalUsers : \E reason \in RejectionReasons :
          Respond([fn |-> "reject_proposal", proposal_id |-> id, current_user |-> u],
                  reject_proposal(proposals, id, reason, u))

CancelProposal ==
    /\ pc = "serving"
    /\ \E id \in RequestedIds : \E u \in ProposalUsers :
          Respond([fn |-> "cancel_proposal", proposal_id |-> id, current_user |-> u],
                  cancel_proposal(proposals, id, u))

ProposalNext == ApproveProposal \/ RejectProposal \/ CancelProposal

SpecProposals == InitProposals /\ [][ProposalNext]_vars

Init == InitSolve \/ InitAvailability \/ InitValidator \/ InitEntry

Next == GreedyNext \/ CpSatNext \/ AvailabilityNext \/ ValidatorNext \/ EntryNext

Spec == Init /\ [][Next]_vars

----------------------------------------------------------------------------
(* Properties of the returned schedules                                     *)

GreedyDone == pc = "greedy_done"
CpSatDone == pc = "cpsat_done"
Returned == GreedyDone \/ CpSatDone

\* the context has no coverage requirement, no role requirement and no
\* contracted hours
EmptyRequirements ==
    /\ context.coverage_requirements = <<>>
    /\ context.role_requirements = <<>>
    /\ \A e \in Range(context.employees) : e.contracted_weekly_hours = 0

\* result.shifts without its i-th shift, followed by the existing shifts
OthersOf(i) ==
    SelectSeq([j \in 1..Len(result.shifts) |-> <<j, result.shifts[j]>>],
              LAMBDA p : p[1] # i)

OtherShifts(i) ==
    {p[2] : p \in Range(OthersOf(i))} \cup Range(context.existing_shifts)

\* C1: in a returned result of either solver, no shift of result.shifts
\* half-open overlaps another shift of the same employee taken from
\* result.shifts and context.existing_shifts.
C1_NoOverlap ==
    Returned =>
        \A i \in 1..Len(result.shifts) : \A t \in OtherShifts(i) :
            LET s == result.shifts[i]
            IN  t.employee_id = s.employee_id =>
                    ~(s.start_datetime < t.end_datetime
                      /\ t.start_datetime < s.end_datetime)

\* a CP-SAT result schedules an employee on the day an existing shift of
\* theirs, begun the day before, ends
C1_Witness ==
    /\ CpSatDone
    /\ \E s \in Range(result.shifts) : \E t \in Range(context.existing_shifts) :
          /\ t.employee_id = s.employee_id
          /\ DateOf(t.start_datetime) < DateOf(t.end_datetime)
          /\ DateOf(s.start_datetime) = DateOf(t.end_datetime)

\* C2: in a returned result of either solver, every employee has at most one
\* shift of result.shifts starting on each day, and none on a day on which an
\* existing shift of theirs starts.
C2_OneShiftPerDay ==
    Returned =>
        \A e \in Range(context.employees) : \A day \in 0..6 :
            LET mine == {i \in 1..Len(result.shifts) :
                            /\ result.shifts[i].employee_id = e.id
                            /\ Weekday(result.shifts[i].start_datetime) = day}
                booked == \E t \in Range(context.existing_shifts) :
                              /\ t.employee_id = e.id
                              /\ Weekday(t.start_datetime) = day
            IN  /\ Cardinality(mine) <= 1
                /\ booked => mine = {}

\* a greedy result gives a shift to an employee who already has an existing
\* shift on another day
C2_Witness ==
    /\ GreedyDone
    /\ \E s \in Range(result.shifts) : \E t \in Range(context.existing_shifts) :
          /\ t.employee_id = s.employee_id
          /\ Weekday(t.start_datetime) # Weekday(s.start_datetime)

\* the pairs <<earlier, later>> of shifts of one employee, taken from
\* result.shifts and the existing shifts with at least one from result.shifts,
\* that start on consecutive days
ConsecutivePairs ==
    LET all == Range(result.shifts) \cup Range(context.existing_shifts)
    IN  {p \in all \X all :
            /\ p[1].employee_id = p[2].employee_id
            /\ DateOf(p[2].start_datetime) = DateOf(p[1].start_datetime) + 1
            /\ (p[1] \in Range(result.shifts) \/ p[2] \in Range(result.shifts))}

\* C3: in a greedy result, of two shifts of one employee that start on
\* consecutive days (at least one of them new), the later starts at least
\* 12 hours after the earlier ends.
C3_GreedyRest ==
    GreedyDone =>
        \A p \in ConsecutivePairs :
            p[2].start_datetime - p[1].end_datetime >= 12 * MinutesPerHour

\* C4: in a CP-SAT solution, for every employee and day d in 0..5, the gap
\* between the end of their shift on day d and the start of their shift on
\* day d+1 is at least 720 minutes, new or existing.
C4_CpSatRest ==
    (CpSatDone /\ status \in {OPTIMAL, FEASIBLE}) =>
        \A day \in 0..5 : \A p \in ConsecutivePairs :
            DateOf(p[1].start_datetime) = day =>
                p[2].start_datetime - p[1].end_datetime >= 720

\* C5: every shift of a returned result passes can_employee_work_shift on its
\* whole window, against the other returned shifts and the existing shifts.
C5_CanWorkEveryShift ==
    Returned =>
        \A i \in 1..Len(result.shifts) :
            LET s == result.shifts[i]
                others == [j \in 1..Len(OthersOf(i)) |-> OthersOf(i)[j][2]]
                              \o context.existing_shifts
            IN  \A e \in EmployeesWithId(context.employees, s.employee_id) :
                    can_employee_work_shift(e, s.start_datetime, s.end_datetime,
                        s.department_id, context.availability_rules,
                        context.time_off_requests, others)

\* C6: no shift of a returned result intersects, on the clock, an UNAVAILABLE
\* rule of its employee for its weekday (all-day or windowed) or an approved
\* time off of its employee.
C6_NeverWhenUnavailable ==
    Returned =>
        \A s \in Range(result.shifts) :
            /\ \A r \in Range(context.availability_rules) :
                  (/\ r.employee_id = s.employee_id
                   /\ r.day_of_week = Weekday(s.start_datetime)
                   /\ r.rule_type = UNAVAILABLE)
                  => /\ ~(r.start_time = NoTime /\ r.end_time = NoTime)
                     /\ (r.start_time # NoTime /\ r.end_time # NoTime) =>
                          ~(s.start_datetime
                                < DT(DateOf(s.start_datetime), r.end_time)
                            /\ DT(DateOf(s.start_datetime), r.start_time)
                                < s.end_datetime)
            /\ \A o \in Range(context.time_off_requests) :
                  o.employee_id = s.employee_id =>
                      ~(s.start_datetime < o.end_datetime
                        /\ o.start_datetime < s.end_datetime)

\* C7: on every return path of either solver, success is true exactly when
\* the three unmet collections are empty.
C7_SuccessIffNothingUnmet ==
    Returned =>
        (result.success <=>
            /\ result.unmet_coverage = <<>>
            /\ result.unmet_role_requirements = <<>>
            /\ result.unmet_contracted_hours = <<>>)

\* C8: with nothing required, the CP-SAT optimum is success with no shift.
C8_CpSatEmptyRequirements ==
    (CpSatDone /\ status = OPTIMAL /\ EmptyRequirements) =>
        result.success /\ result.shifts = <<>>

\* C9: with nothing required, the greedy solver returns success and no shift.
C9_GreedyEmptyRequirements ==
    (GreedyDone /\ EmptyRequirements) =>
        result.success /\ result.shifts = <<>>

\* the greedy solver has returned for a context that requires nothing but
\* holds existing shifts and employees free to work
C9_Witness ==
    /\ GreedyDone
    /\ EmptyRequirements
    /\ context.existing_shifts # <<>>
    /\ context.availability_rules = <<>>

\* C10: the unmet collections of a CP-SAT solution are those validate_schedule
\* computes on result.shifts with the existing shifts.
C10_UnmetAsValidator ==
    (CpSatDone /\ status \in {OPTIMAL, FEASIBLE}) =>
        LET validation ==
                validate_schedule(context, result.shifts \o context.existing_shifts)
        IN  /\ result.unmet_coverage = validation.coverage_gaps
            /\ result.unmet_role_requirements = validation.role_gaps
            /\ result.unmet_contracted_hours = validation.hour_shortfalls

----------------------------------------------------------------------------
(* Properties of get_availability_for_slot and can_employee_work_shift      *)

Classified == pc = "returned" /\ call.fn = "get_availability_for_slot"

\* the rules of the call's employee for the call's day
OwnRules ==
    {r \in Range(call.rules) :
        r.employee_id = call.employee_id /\ r.day_of_week = call.day_of_week}

OwnRulesOfType(type) == {r \in OwnRules : r.rule_type = type}

\* the rule is all day, or has a window that half-open overlaps the slot
RuleOverlapsSlot(r) ==
    \/ r.start_time = NoTime /\ r.end_time = NoTime
    \/ /\ r.start_time # NoTime /\ r.end_time # NoTime
       /\ call.slot_start < r.end_time /\ r.start_time < call.slot_end

\* the rule is all day, or has a window that contains the slot
RuleCoversSlot(r) ==
    \/ r.start_time = NoTime /\ r.end_time = NoTime
    \/ /\ r.start_time # NoTime /\ r.end_time # NoTime
       /\ call.slot_start >= r.start_time /\ call.slot_end <= r.end_time

SlotCovered == \E r \in OwnRulesOfType(AVAILABLE) : RuleCoversSlot(r)
SlotBlocked == \E r \in OwnRulesOfType(UNAVAILABLE) : RuleOverlapsSlot(r)
SlotPreferred == \E r \in OwnRulesOfType(PREFERRED) : RuleOverlapsSlot(r)

\* C11: when an AVAILABLE rule covers the slot and no UNAVAILABLE rule overlaps
\* it, get_availability_for_slot returns PREFERRED if a PREFERRED rule (all day
\* or windowed) overlaps the slot, and AVAILABLE otherwise.
C11_PreferredWhenCovered ==
    (Classified /\ SlotCovered /\ ~SlotBlocked) =>
        ret = IF SlotPreferred THEN PREFERRED ELSE AVAILABLE

\* C12: when an UNAVAILABLE rule is all day or overlaps the slot,
\* get_availability_for_slot returns UNAVAILABLE, whatever other rules the list
\* holds and in whatever order.
C12_UnavailableWins ==
    (Classified /\ SlotBlocked) => ret = UNAVAILABLE

\* an UNAVAILABLE rule that overlaps the slot comes last in the list, after an
\* AVAILABLE or PREFERRED rule that matches the slot
C12_Witness ==
    /\ Classified
    /\ Len(call.rules) = 2
    /\ call.rules[2] \in OwnRulesOfType(UNAVAILABLE)
    /\ RuleOverlapsSlot(call.rules[2])
    /\ SlotCovered \/ SlotPreferred
    /\ ret = UNAVAILABLE

\* C13: with an AVAILABLE rule for the day, none covering the slot and no
\* PREFERRED rule overlapping it, get_availability_for_slot returns UNAVAILABLE;
\* it returns None only when no rule of the employee for the day applies to the
\* slot and the employee has no AVAILABLE rule that day.
C13_UnlistedTimesForbidden ==
    Classified =>
        /\ (OwnRulesOfType(AVAILABLE) # {} /\ ~SlotCovered /\ ~SlotPreferred)
              => ret = UNAVAILABLE
        /\ ret = NoAvail =>
              /\ ~SlotCovered /\ ~SlotBlocked /\ ~SlotPreferred
              /\ OwnRulesOfType(AVAILABLE) = {}

\* the AVAILABLE rules of the day leave the slot out and nothing else applies,
\* in one call, and in another the rules of the day miss the slot and None is
\* returned
C13_Witness ==
    /\ Classified
    /\ \/ /\ OwnRulesOfType(AVAILABLE) # {}
          /\ ~SlotCovered /\ ~SlotPreferred /\ ~SlotBlocked
          /\ ret = UNAVAILABLE
       \/ /\ OwnRules # {}
          /\ ret = NoAvail

CanWorkReturned == pc = "returned" /\ call.fn = "can_employee_work_shift"

\* the reason can_employee_work_shift is to give: that of the first condition
\* that holds, looking only at what belongs to the employee
ExpectedReason ==
    LET e == call.employee
        own_rules == SelectSeq(call.availability_rules,
                               LAMBDA r : r.employee_id = e.id)
    IN  IF \A i \in 1..Len(e.department_ids) :
                e.department_ids[i] # call.department_id
        THEN "Employee not assigned to department"
        ELSE IF \E o \in Range(call.time_off_requests) :
                    /\ o.employee_id = e.id
                    /\ call.shift_start < o.end_datetime
                    /\ o.start_datetime < call.shift_end
        THEN "Employee has approved time off"
        ELSE IF get_availability_for_slot(e.id, Weekday(call.shift_start),
                    TimeOf(call.shift_start), TimeOf(call.shift_end), own_rules)
                = UNAVAILABLE
        THEN "Employee unavailable during this time"
        ELSE IF \E x \in Range(call.existing_shifts) :
                    /\ x.employee_id = e.id
                    /\ call.shift_start < x.end_datetime
                    /\ x.start_datetime < call.shift_end
        THEN "Conflicts with existing shift"
        ELSE "OK"

\* C14: can_employee_work_shift returns true exactly when the department is one
\* of the employee's, no time off of the employee overlaps the window, the
\* window is not classified UNAVAILABLE and no shift of the employee overlaps
\* it; the reason is that of the first failing condition, and what belongs to
\* other employees does not count.
C14_CanWorkConditions ==
    CanWorkReturned =>
        /\ ret[1] = (ExpectedReason = "OK")
        /\ ret[2] = ExpectedReason

\* the call is refused for a conflicting shift although another employee is on
\* time off, or accepted although another employee is on time off or at work
C14_Witness ==
    /\ CanWorkReturned
    /\ \E o \in Range(call.time_off_requests) \cup Range(call.existing_shifts) :
            o.employee_id # call.employee.id
    /\ ret[2] \in {"OK", "Conflicts with existing shift"}

----------------------------------------------------------------------------
(* Properties of the validator's window checks                              *)

CoverageChecked == pc = "returned" /\ call.fn = "check_coverage_for_window"

\* the sample instants start + k * 30 minutes before `end`
SamplesBetween(start, end) ==
    {t \in start..(end - 1) : (t - start) % 30 = 0}

\* the shifts of the call active at t, in the department when one is given
ListedActiveAt(t, dept) ==
    {i \in 1..Len(call.shifts) :
        /\ call.shifts[i].start_datetime <= t
        /\ t < call.shifts[i].end_datetime
        /\ (dept = NoDept \/ call.shifts[i].department_id = dept)}

FailingCoverageSamples ==
    LET q == call.requirement
    IN  {t \in SamplesBetween(DT(q.day_of_week, q.start_time),
                               DT(q.day_of_week, q.end_time)) :
            Cardinality(ListedActiveAt(t, q.department_id)) < q.min_staff}

\* C15: check_coverage_for_window reports the requirement met exactly when at
\* every 30-minute sample of the window at least min_staff shifts of the
\* department have start <= t < end (a shift ending at t does not count), and
\* the gap list holds exactly the failing samples.
C15_CoverageSamples ==
    CoverageChecked =>
        /\ ret[1] = (FailingCoverageSamples = {})
        /\ Range(ret[2]) = FailingCoverageSamples
        /\ Len(ret[2]) = Cardinality(FailingCoverageSamples)

\* a sample is reported as a gap that the shift ending at it would have filled
C15_Witness ==
    /\ CoverageChecked
    /\ \E t \in Range(ret[2]) :
          Cardinality({i \in 1..Len(call.shifts) :
                /\ call.shifts[i].department_id = call.requirement.department_id
                /\ call.shifts[i].start_datetime <= t
                /\ t <= call.shifts[i].end_datetime}) >= call.requirement.min_staff

RoleChecked == pc = "returned" /\ call.fn = "check_role_requirement_for_window"

\* the employees of the shifts active at t
ActiveEmployees(t) ==
    {e \in Range(call.employees) :
        \E i \in ListedActiveAt(t, call.requirement.department_id) :
            call.shifts[i].employee_id = e.id}

RoleMetAt(t) ==
    LET q == call.requirement
    IN  /\ q.requires_keyholder => \E e \in ActiveEmployees(t) : e.is_keyholder
        /\ q.requires_manager =>
              Cardinality({e \in ActiveEmployees(t) : e.is_manager})
                  >= q.min_manager_count

RoleDaysOfCall ==
    IF call.requirement.day_of_week = NoDay
    THEN 0..6
    ELSE {call.requirement.day_of_week}

RoleMetOnWindow ==
    \A d \in RoleDaysOfCall :
        \A t \in SamplesBetween(DT(d, call.requirement.start_time),
                                 DT(d, call.requirement.end_time)) : RoleMetAt(t)

\* C16: check_role_requirement_for_window reports the requirement met exactly
\* when at every 30-minute sample of its window, on its day or on each of the
\* seven days when it has none, the employees of the active shifts (of its
\* department when it has one) include a keyholder if one is required and at
\* least min_manager_count managers if a manager is required.
C16_RoleSamples ==
    RoleChecked => (ret[1] = RoleMetOnWindow)

\* no employee has two shifts active at the same instant
NoDoubleBooking ==
    \A i, j \in 1..Len(call.shifts) :
        (i # j /\ call.shifts[i].employee_id = call.shifts[j].employee_id) =>
            \/ call.shifts[i].end_datetime <= call.shifts[j].start_datetime
            \/ call.shifts[j].end_datetime <= call.shifts[i].start_datetime

\* on lists without double bookings the report is that of C16
RoleSamplesWithoutDoubleBooking ==
    (RoleChecked /\ NoDoubleBooking) => (ret[1] = RoleMetOnWindow)

\* a requirement without a day is reported met over the seven days, or unmet
\* for the one day left without a keyholder
RoleSevenDaysReached ==
    /\ RoleChecked /\ NoDoubleBooking
    /\ call.requirement.day_of_week = NoDay
    /\ call.requirement.requires_keyholder
    /\ ret[1]

----------------------------------------------------------------------------
(* Properties of the solvers' results                                       *)

\* the duration of the shift lies between 4 hours and 9 hours, or 12 hours for
\* a manager
LengthAllowed(s, e) ==
    /\ s.end_datetime - s.start_datetime >= 4 * 60
    /\ s.end_datetime - s.start_datetime <= (IF e.is_manager THEN 12 ELSE 9) * 60

\* C17: every shift of the result of either solver lasts at least 4 hours and
\* at most 9 hours, or at most 12 hours when its employee is a manager.
C17_ShiftLengths ==
    Returned =>
        \A s \in Range(result.shifts) :
            \A e \in Range(context.employees) :
                e.id = s.employee_id => LengthAllowed(s, e)

\* a result holds a shift of a manager and a shift of another employee
C17_Witness ==
    /\ Returned
    /\ \E s \in Range(result.shifts) : \E e \in Range(context.employees) :
            e.id = s.employee_id /\ e.is_manager
    /\ \E s \in Range(result.shifts) : \E e \in Range(context.employees) :
            e.id = s.employee_id /\ ~e.is_manager

\* C18: the entry point that takes a ScheduleContext checks that week_start is
\* a Monday and, when it is not, fails with an input error and returns no
\* ScheduleResult.
C18_MondayValidated ==
    (call.fn = "generate_schedule_from_context" /\ call.week_start # 0) =>
        ~GreedyDone

\* result.warnings holds the warning of a category: the greedy solver's
\* warnings are pairs <<count, text>>, those of a CP-SAT solution are texts
HasWarning(text) ==
    IF GreedyDone
    THEN \E i \in 1..Len(result.warnings) : result.warnings[i][2] = text
    ELSE /\ status \in {OPTIMAL, FEASIBLE}
         /\ \E i \in 1..Len(result.warnings) : result.warnings[i] = text

\* C19: when a solver leaves something unmet it returns success = false, and
\* result.warnings holds an entry for each category (coverage, role
\* requirements, contracted hours) whose unmet collection is not empty.
C19_WarningPerCategory ==
    Returned =>
        /\ result.unmet_coverage # <<>> =>
              ~result.success /\ HasWarning("coverage requirements not fully met")
        /\ result.unmet_role_requirements # <<>> =>
              ~result.success /\ HasWarning("role requirements not fully met")
        /\ result.unmet_contracted_hours # <<>> =>
              ~result.success /\ HasWarning("employees under contracted hours")

\* the shift is that of a decision variable of the model: its employee, its
\* department, its day, its first slot and its length
ExtractedFromVariable(s) ==
    \E i \in 1..Len(shift_vars) :
        /\ s.employee_id = shift_vars[i].emp_id
        /\ s.department_id = shift_vars[i].dept_id
        /\ s.start_datetime = shift_vars[i].day * 1440 + 6 * 60 + shift_vars[i].start_slot * 60
        /\ s.end_datetime - s.start_datetime = shift_vars[i].length * 60

\* C20: the CP-SAT solve_schedule returns a ScheduleResult for every status of
\* the backend; with FEASIBLE the result carries the extracted shifts and one
\* more warning than with OPTIMAL; with any other status success is false, the
\* shifts are empty and a warning names the status.
C20_ResultForEveryStatus ==
    CpSatDone =>
        /\ status \in {OPTIMAL, FEASIBLE} =>
              /\ \A s \in Range(result.shifts) : ExtractedFromVariable(s)
              /\ result.success = (/\ result.unmet_coverage = <<>>
                                   /\ result.unmet_role_requirements = <<>>
                                   /\ result.unmet_contracted_hours = <<>>)
              /\ Len(result.warnings) = IF status = FEASIBLE THEN 1 ELSE 0
        /\ status = FEASIBLE =>
              result.warnings[1] = "Solution may not be optimal (time limit reached)"
        /\ status \notin {OPTIMAL, FEASIBLE} =>
              /\ ~result.success
              /\ result.shifts = <<>>
              /\ Len(result.warnings) = 1
              /\ result.warnings[1][1] = status

\* the solve ends with a status that is neither OPTIMAL nor FEASIBLE on a
\* context for which the model has shift variables
C20_Witness ==
    /\ CpSatDone
    /\ status \notin {OPTIMAL, FEASIBLE}
    /\ shift_vars # <<>>
    /\ result.shifts = <<>>

\* the solve ends FEASIBLE with extracted shifts and the warning
FeasibleWithShiftsReached ==
    /\ CpSatDone
    /\ status = FEASIBLE
    /\ result.shifts # <<>>
    /\ result.warnings # <<>>

ShiftId(s) == <<s.employee_id, s.start_datetime, s.end_datetime>>

\* result.shifts holds no existing shift, and after a greedy solve the working
\* list is the existing shifts followed by result.shifts
OnlyCreatedShifts ==
    /\ Returned =>
          \A s \in Range(result.shifts) : \A x \in Range(context.existing_shifts) :
              ShiftId(s) # ShiftId(x)
    /\ GreedyDone => shifts = context.existing_shifts \o result.shifts

\* C21: result.shifts of either solver holds only shifts the solver created:
\* none of context.existing_shifts, and every shift the greedy solver added to
\* its working list; no step of a solve changes context.existing_shifts.
C21_OnlyCreatedShifts ==
    /\ []OnlyCreatedShifts
    /\ [][context'.existing_shifts = context.existing_shifts]_vars

\* the greedy solver has added a shift for an employee that has an existing
\* shift
C21_Witness ==
    /\ GreedyDone
    /\ \E s \in Range(result.shifts) : \E x \in Range(context.existing_shifts) :
            s.employee_id = x.employee_id

----------------------------------------------------------------------------
(* Properties of two solves side by side                                    *)

BothSolved == pc = "returned" /\ call.fn \in {"solver.solve_schedule", "or_solver.solve_schedule"}

\* the contracted-hour shortfall of the employee in the result, 0 when the
\* employee is not listed
ShortfallIn(r, id) ==
    IF \E i \in 1..Len(r.unmet_contracted_hours) : r.unmet_contracted_hours[i][1] = id
    THEN (CHOOSE p \in Range(r.unmet_contracted_hours) : p[1] = id)[2]
    ELSE 0

\* C22: when one coverage requirement has a larger min_staff in a second
\* context that is otherwise the same, no unmet metric of the second result is
\* smaller than in the first: the number of unmet coverage requirements, the
\* number of unmet role requirements, every employee's shortfall.
C22_TighteningMonotone ==
    BothSolved =>
        /\ Len(ret[2].unmet_coverage) >= Len(ret[1].unmet_coverage)
        /\ Len(ret[2].unmet_role_requirements) >= Len(ret[1].unmet_role_requirements)
        /\ \A e \in Range(call.context.employees) :
              ShortfallIn(ret[2], e.id) >= ShortfallIn(ret[1], e.id)

----------------------------------------------------------------------------
(* Properties of the solves with one keyholder requirement                  *)

KeyholderSolved == pc = "returned" /\ call.fn = "solve_schedule"

\* a shift of the result belongs to a keyholder and covers the whole window of
\* the role requirement
KeyholderCoversWindow ==
    LET q == call.context.role_requirements[1]
    IN  \E s \in Range(ret.shifts) :
            /\ \E e \in Range(call.context.employees) :
                  e.id = s.employee_id /\ e.is_keyholder
            /\ s.start_datetime <= DT(q.day_of_week, q.start_time)
            /\ s.end_datetime >= DT(q.day_of_week, q.end_time)

\* C23: with no coverage requirement, no availability rule, no time off, no
\* existing shift and one keyholder requirement on one weekday over a window
\* of whole hours, at most 4 hours long, within 06:00-22:00, when an employee
\* is a keyholder with a department the result of either solver has no unmet
\* role requirement and a shift of a keyholder covers the whole window.
C23_KeyholderScheduled ==
    KeyholderSolved =>
        /\ ret.unmet_role_requirements = <<>>
        /\ KeyholderCoversWindow

-----------------------------------------------------------------------------
(* The schedulable day                                                      *)

\* the shift starts at or after 06:00 and ends at or before 22:00 of the day
\* it starts on
InsideSchedulableDay(s) ==
    /\ TimeOf(s.start_datetime) >= HM(DAY_START_HOUR, 0)
    /\ s.end_datetime <= DT(DateOf(s.start_datetime), HM(DAY_END_HOUR, 0))

\* C24: for either solver every shift of result.shifts starts at or after
\* 06:00 and ends at or before 22:00 on the calendar day it starts on.
C24_InsideSchedulableDay ==
    Returned => \A s \in Range(result.shifts) : InsideSchedulableDay(s)

-----------------------------------------------------------------------------
(* Properties of the greedy scoring                                         *)

ScoreReturned == pc = "returned" /\ call.fn = "_score_shift"

\* the hours part of the score for h hours assigned, c contracted and a shift
\* of d hours: +2 per hour that fills outstanding need, -3 per hour beyond the
\* contracted total
HoursPartStated(h, c, d) ==
    2 * Min2(d, Max2(0, c - h)) - 3 * Max2(0, h + d - c)

\* the score of the same shift for the same employee when the contract is
\* h + d hours: the whole shift fills outstanding need and none of it is
\* beyond the contract, so the hours part is 2 * d
ScoreWhenAllNeeded(c, h, d) ==
    LET ctx == [c.context EXCEPT !.employees[c.employee].contracted_weekly_hours = h + d]
    IN  _score_shift(ctx, SolverInit(ctx), c.shift, ctx.employees[c.employee],
                     c.department_id)

\* C25: the hours part of _score_shift is 2 * min(d, max(0, c - h))
\* - 3 * max(0, h + d - c) for h hours assigned, c contracted hours and a
\* shift of d hours (the other parts of the score do not depend on c, so they
\* are those of the score under a contract of h + d hours).
C25_HoursPartOfScore ==
    ScoreReturned =>
        LET h == SolverInit(call.context).employee_hours[call.employee] \div MinutesPerHour
            c == call.context.employees[call.employee].contracted_weekly_hours
            d == duration_minutes(call.shift) \div MinutesPerHour
        IN  ret - (ScoreWhenAllNeeded(call, h, d) - 2 * d) = HoursPartStated(h, c, d)

BestReturned == pc = "returned" /\ call.fn = "_find_best_shift_for_time"

\* position of a length (in minutes) in the palette 8, 4, 6, 10
PalettePosition(length) ==
    CHOOSE k \in 1..Len(MANAGER_SHIFT_LENGTHS) :
        MANAGER_SHIFT_LENGTHS[k] * MinutesPerHour = length

\* the surviving candidates of a call: an employee of the department with no
\* shift that day and sufficient rest, one of the employee's lengths, and a
\* start on the 30-minute grid between max(06:00, target - length + 30 min)
\* and min(22:00 - length, target) that passes can_employee_work_shift
Survivors(c) ==
    LET st == SolverInit(c.context)
        day == DateOf(c.target_time)
        eligible == { e \in Range(c.context.employees) :
                        /\ c.department_id \in Range(e.department_ids)
                        /\ Weekday(c.target_time) \notin st.employee_days[e.id]
                        /\ _has_sufficient_rest(st, e.id, day) }
        lengths == { l * MinutesPerHour : l \in Range(MANAGER_SHIFT_LENGTHS) }
        starts == { DT(day, DayStartTime) + k * SampleInterval :
                        k \in 0..((DayEndTime - DayStartTime) \div SampleInterval) }
    IN  { v \in [employee : eligible, length : lengths, start : starts] :
            /\ v.length \in { l * MinutesPerHour : l \in Range(allowed_lengths(v.employee)) }
            /\ v.start >= Max2(DT(day, DayStartTime),
                               c.target_time - v.length + SampleInterval)
            /\ v.start <= Min2(DT(day, DayEndTime) - v.length, c.target_time)
            /\ can_employee_work_shift(v.employee, v.start, v.start + v.length,
                    c.department_id, c.context.availability_rules,
                    c.context.time_off_requests, st.shifts) }

CandidateShift(c, v) ==
    Shift(v.employee.id, c.department_id, v.start, v.start + v.length)

CandidateScore(c, v) ==
    _score_shift(c.context, SolverInit(c.context), CandidateShift(c, v),
                 v.employee, c.department_id)

\* candidate r comes no later than candidate v in the order (score descending,
\* palette position, start)
ComesFirst(c, r, v) ==
    \/ CandidateScore(c, r) > CandidateScore(c, v)
    \/ /\ CandidateScore(c, r) = CandidateScore(c, v)
       /\ \/ PalettePosition(r.length) < PalettePosition(v.length)
          \/ /\ PalettePosition(r.length) = PalettePosition(v.length)
             /\ r.start <= v.start

\* the returned shift is a surviving candidate of maximal score
BestHasMaxScore ==
    \E r \in Survivors(call) :
        /\ CandidateShift(call, r) = ret[1]
        /\ \A v \in Survivors(call) : CandidateScore(call, v) <= CandidateScore(call, r)

\* the returned shift is a surviving candidate that comes first in the order
BestComesFirst ==
    \E r \in Survivors(call) :
        /\ CandidateShift(call, r) = ret[1]
        /\ \A v \in Survivors(call) : ComesFirst(call, r, v)

\* the same call on the context with the employees in the reverse order
\* returns the same
BestWhateverTheOrder ==
    LET ctx == [call.context EXCEPT
                    !.employees = Reorder(@, [i \in 1..Len(@) |-> Len(@) + 1 - i])]
    IN  ret = _find_best_shift_for_time(ctx, SolverInit(ctx), call.target_time,
                  call.department_id, call.window_start, call.window_end)

\* C26: _find_best_shift_for_time returns, among the surviving (employee,
\* length, start) candidates, one of maximal score, among those of equal score
\* one whose length comes first in the palette (8, 4, 6, 10), among those the
\* earliest start, whatever the order of the employees in the context.
C26_BestCandidate ==
    BestReturned =>
        IF Survivors(call) = {} THEN ret = <<>>
        ELSE /\ ret # <<>>
             /\ BestHasMaxScore
             /\ BestComesFirst
             /\ BestWhateverTheOrder

RoleShiftReturned == pc = "returned" /\ call.fn = "_find_role_shift"

\* the employees at work at the instant of the call, as
\* check_role_requirement_at_time counts them
AtWork(c) ==
    LET active == get_shifts_covering_time(SolverInit(c.context).shifts, c.target_time,
                      c.context.role_requirements[1].department_id)
    IN  [i \in 1..Len(active) |->
            CHOOSE e \in Range(c.context.employees) : e.id = active[i].employee_id]

KeyholderMissing(c) ==
    /\ c.context.role_requirements[1].requires_keyholder
    /\ \A i \in 1..Len(AtWork(c)) : ~AtWork(c)[i].is_keyholder

ManagerMissing(c) ==
    /\ c.context.role_requirements[1].requires_manager
    /\ Cardinality({i \in 1..Len(AtWork(c)) : AtWork(c)[i].is_manager})
          < c.context.role_requirements[1].min_manager_count

\* the employee has a capability that is missing at the instant of the call
HasMissingCapability(c, e) ==
    \/ KeyholderMissing(c) /\ e.is_keyholder
    \/ ManagerMissing(c) /\ e.is_manager

\* the employee has every capability that is missing at the instant of the call
HasAllMissingCapabilities(c, e) ==
    /\ KeyholderMissing(c) => e.is_keyholder
    /\ ManagerMissing(c) => e.is_manager

\* C27: at a sample instant where a role requirement is not met the
\* candidates of _find_role_shift are the employees that have the capability
\* missing at that instant: every candidate has a missing capability, and
\* every employee that has all the missing capabilities is a candidate (a
\* manager who is not a keyholder when only the manager count is short, a
\* keyholder who is not a manager when only the keyholder is missing).
C27_RoleCandidates ==
    RoleShiftReturned =>
        LET candidates == Range(role_candidates(call.context,
                                    call.context.role_requirements[1]))
        IN  /\ \A e \in candidates : HasMissingCapability(call, e)
            /\ \A e \in Range(call.context.employees) :
                  HasAllMissingCapabilities(call, e) => e \in candidates

-----------------------------------------------------------------------------
(* Priority of coverage in the CP-SAT objective                             *)

\* with the shifts of assignment A beside the existing shifts no sample
\* instant of a coverage window is below min_staff
FullyCovers(ctx, keys, A) ==
    \A r \in Range(ctx.coverage_requirements) :
        check_coverage_for_window(ExtractShifts(keys, A) \o ctx.existing_shifts, r)

\* some assignment the hard constraints admit leaves no coverage sample below
\* min_staff
CoverageAchievable ==
    \E A \in Solutions(context, shift_vars) : FullyCovers(context, shift_vars, A)

TotalShortfall(ctx, keys, A) ==
    LET unmet == _check_unmet_hours(ExtractShifts(keys, A), ctx)
    IN  SumSeq([i \in 1..Len(unmet) |-> unmet[i][2]])

-----------------------------------------------------------------------------
(* Maximality of the greedy result                                          *)

\* the employee could still take a shift that covers instant t of requirement
\* r: of r's department, no shift on that weekday in the working set, enough
\* rest, and a palette length with a start on the 30-minute grid between
\* max(06:00, t - length + 30 min) and min(22:00 - length, t) that passes
\* can_employee_work_shift against the working set
CouldStillCover(e, r, t) ==
    LET day == DateOf(t)
        palette == IF e.is_manager THEN MANAGER_SHIFT_LENGTHS
                   ELSE NON_MANAGER_SHIFT_LENGTHS
    IN  /\ r.department_id \in Range(e.department_ids)
        /\ \A s \in Range(shifts) :
              s.employee_id = e.id => shift_day_of_week(s) # Weekday(t)
        /\ _has_sufficient_rest(Solver, e.id, day)
        /\ \E k \in 1..Len(palette) :
              LET length == palette[k] * MinutesPerHour
                  earliest == Max2(DT(day, DayStartTime), t - length + SampleInterval)
                  latest == Min2(DT(day, DayEndTime) - length, t)
              IN  \E n \in 0..((DayEndTime - DayStartTime) \div SampleInterval) :
                    LET start == earliest + n * SampleInterval
                    IN  /\ start <= latest
                        /\ can_employee_work_shift(e, start, start + length,
                               r.department_id, context.availability_rules,
                               context.time_off_requests, shifts)

\* the sample instants of the coverage windows still below min_staff
OpenSamples ==
    { <<r, t>> \in UNION { { <<q, u>> : u \in Range(SampleTimes(
                                  DT(q.day_of_week, q.start_time),
                                  DT(q.day_of_week, q.end_time))) } :
                           q \in Range(context.coverage_requirements) } :
        ~check_coverage_at_time(shifts, r, t) }

GreedyMaximal ==
    GreedyDone =>
        \A x \in OpenSamples : \A e \in Range(context.employees) :
            ~CouldStillCover(e, x[1], x[2])

\* the working set after a step is the one before it, possibly with shifts
\* appended
ShiftsOnlyAdded ==
    /\ Len(shifts') >= Len(shifts)
    /\ SubSeq(shifts', 1, Len(shifts)) = shifts

-----------------------------------------------------------------------------
(* The lifecycle of an AI proposal                                          *)

\* the status a route gives a pending proposal
StatusGivenBy(fn) ==
    IF fn = "approve_proposal" THEN APPROVED
    ELSE IF fn = "reject_proposal" THEN REJECTED
    ELSE CANCELLED

\* in this step the status of a row changes only from PENDING, to the status
\* of the route that served the request
ChangesOnlyFromPending ==
    \A id \in DOMAIN proposals :
        proposals'[id].status # proposals[id].status =>
            /\ proposals[id].status = PENDING
            /\ call'.proposal_id = id
            /\ proposals'[id].status = StatusGivenBy(call'.fn)

\* this step serves a request on a row whose status is not PENDING
ServesSettled ==
    /\ call'.proposal_id \in DOMAIN proposals
    /\ proposals[call'.proposal_id].status # PENDING

\* this step leaves status, rejection_reason and last_actioned_by of every
\* row as they are
LeavesRows == proposals' = proposals

====
